---- MODULE Spec2Model ----
(***************************************************************************)
(* Plan execution engine of the agent (agent/action/executor.py) together  *)
(* with the argument preparation and validation it calls                    *)
(* (agent/decision/tool_selector.py).                                       *)
(*                                                                          *)
(* Python values are tagged records [t, v]:                                 *)
(*   str  : v is the text, a sequence of atoms.  The atoms "{", "}" and     *)
(*          "." are those characters; any other atom is a run of            *)
(*          characters containing none of the three.                        *)
(*   list : v is the sequence of elements.                                  *)
(*   dict : v is the sequence of items [k, val] in insertion order; k is    *)
(*          a text (sequence of atoms).                                     *)
(*   none : None.                                                           *)
(***************************************************************************)
EXTENDS Integers, Sequences, FiniteSets, TLC

\* ------------------------------------------------------------------ bounds

\* Largest number of steps of a plan.
MaxSteps == 3

\* Largest number of depends_on entries of a plan, all steps together.
MaxEdges == 2

\* Largest number of steps of a plan that is a chain.
MaxChain == 2

\* Largest number of steps in an answer of the planning model to create_plan.
MaxAnswer == 2

\* Largest number of calls of process_message and execute_workflow.
MaxMessages == 2

\* ------------------------------------------------------------------ values

Str(s) == [t |-> "str", v |-> s]

List(xs) == [t |-> "list", v |-> xs]

Dict(items) == [t |-> "dict", v |-> items]

None == [t |-> "none", v |-> <<>>]

Item(k, val) == [k |-> k, val |-> val]

EmptyDict == Dict(<<>>)

IsStr(x) == x.t = "str"

IsList(x) == x.t = "list"

IsDict(x) == x.t = "dict"

IsNone(x) == x.t = "none"

\* key in d
HasKey(d, k) == \E n \in 1..Len(d.v) : d.v[n].k = k

\* d[k], for a key that is present
Lookup(d, k) == d.v[CHOOSE n \in 1..Len(d.v) : d.v[n].k = k].val

\* d.get(k): None when the key is absent
Get(d, k) == IF HasKey(d, k) THEN Lookup(d, k) ELSE None

\* d.get(k, default)
GetOr(d, k, default) == IF HasKey(d, k) THEN Lookup(d, k) ELSE default

\* d[k] = val: an existing key keeps its position, a new key goes last
Put(d, k, val) ==
    IF HasKey(d, k)
    THEN Dict([n \in 1..Len(d.v) |-> IF d.v[n].k = k THEN Item(k, val) ELSE d.v[n]])
    ELSE Dict(Append(d.v, Item(k, val)))

\* list(d.keys())
Keys(d) == [n \in 1..Len(d.v) |-> d.v[n].k]

KeySet(d) == {d.v[n].k : n \in 1..Len(d.v)}

RECURSIVE Join(_, _)
\* sep.join(parts), parts being texts
Join(parts, sep) ==
    IF Len(parts) = 0 THEN <<>>
    ELSE IF Len(parts) = 1 THEN parts[1]
    ELSE parts[1] \o sep \o Join(Tail(parts), sep)

RECURSIVE Repr(_)
RECURSIVE ReprSeq(_)
RECURSIVE ReprItems(_)
\* repr(x), the form str() gives to the elements of a container
Repr(x) ==
    IF IsStr(x) THEN <<"'">> \o x.v \o <<"'">>
    ELSE IF IsNone(x) THEN <<"None">>
    ELSE IF IsList(x) THEN <<"[">> \o Join(ReprSeq(x.v), <<", ">>) \o <<"]">>
    ELSE <<"{">> \o Join(ReprItems(x.v), <<", ">>) \o <<"}">>

ReprSeq(xs) == [n \in 1..Len(xs) |-> Repr(xs[n])]

ReprItems(items) ==
    [n \in 1..Len(items) |-> <<"'">> \o items[n].k \o <<"'", ": ">> \o Repr(items[n].val)]

\* str(x)
PyStr(x) == IF IsStr(x) THEN x.v ELSE Repr(x)

\* ------------------------------------------------------------------- texts

\* needle occurs in text at position p
OccursAt(text, needle, p) ==
    /\ p + Len(needle) - 1 <= Len(text)
    /\ SubSeq(text, p, p + Len(needle) - 1) = needle

RECURSIVE ReplaceFrom(_, _, _, _)
ReplaceFrom(text, old, new, p) ==
    IF p > Len(text) THEN <<>>
    ELSE IF OccursAt(text, old, p)
         THEN new \o ReplaceFrom(text, old, new, p + Len(old))
         ELSE <<text[p]>> \o ReplaceFrom(text, old, new, p + 1)

\* text.replace(old, new), old not empty
Replace(text, old, new) == ReplaceFrom(text, old, new, 1)

\* position of the first "}" after p, or 0
FirstClose(text, p) ==
    IF \E q \in (p + 1)..Len(text) : text[q] = "}"
    THEN CHOOSE q \in (p + 1)..Len(text) :
            /\ text[q] = "}"
            /\ \A r \in (p + 1)..(q - 1) : text[r] # "}"
    ELSE 0

RECURSIVE FindAllFrom(_, _)
FindAllFrom(text, p) ==
    IF p > Len(text) THEN <<>>
    ELSE IF text[p] # "{" THEN FindAllFrom(text, p + 1)
    ELSE LET q == FirstClose(text, p)
         IN  IF q = 0 THEN <<>>
             ELSE IF q = p + 1 THEN FindAllFrom(text, p + 1)
             ELSE <<SubSeq(text, p + 1, q - 1)>> \o FindAllFrom(text, q + 1)

\* placeholder_pattern.findall(text), the pattern being \{([^}]+)\}
FindAll(text) == FindAllFrom(text, 1)

RECURSIVE SplitFrom(_, _, _)
SplitFrom(text, p, acc) ==
    IF p > Len(text) THEN <<acc>>
    ELSE IF text[p] = "." THEN <<acc>> \o SplitFrom(text, p + 1, <<>>)
    ELSE SplitFrom(text, p + 1, Append(acc, text[p]))

\* text.split(".")
SplitDots(text) == SplitFrom(text, 1, <<>>)

\* f"{{{placeholder}}}"
Braced(placeholder) == <<"{">> \o placeholder \o <<"}">>

\* "{" in text and "}" in text
HasBraces(text) ==
    /\ \E p \in 1..Len(text) : text[p] = "{"
    /\ \E p \in 1..Len(text) : text[p] = "}"

\* ------------------------------------------------- ToolSelector (arguments)

\* The generic tokens of _preprocess_placeholders
GenericTokens == {<<"prev_step_output">>, <<"step_output">>, <<"previous_output">>}

\* The atoms of the form step\d+
StepAtoms == <<"step1", "step2", "step3", "step4", "step5">>

StepId(n) == <<StepAtoms[n]>>

\* re.match(r"^step\d+_output$", ph)
IsNumberedToken(ph) ==
    /\ Len(ph) = 2
    /\ \E n \in 1..Len(StepAtoms) : ph[1] = StepAtoms[n]
    /\ ph[2] = "_output"

\* Mutant: depends_on is scanned from its first entry
MostRecentDependencyFirst(depends_on, results) ==
    IF \E n \in 1..Len(depends_on) : HasKey(results, depends_on[n])
    THEN depends_on[CHOOSE n \in 1..Len(depends_on) :
            /\ HasKey(results, depends_on[n])
            /\ \A m \in 1..(n - 1) : ~HasKey(results, depends_on[m])]
    ELSE <<>>

\* for dep_id in reversed(depends_on): if dep_id in step_results: ... break
\* (<<>> stands for prev_step_id = None; an empty id is falsy as well)
MostRecentDependency(depends_on, results) ==
    IF \E n \in 1..Len(depends_on) : HasKey(results, depends_on[n])
    THEN depends_on[CHOOSE n \in 1..Len(depends_on) :
            /\ HasKey(results, depends_on[n])
            /\ \A m \in (n + 1)..Len(depends_on) : ~HasKey(results, depends_on[m])]
    ELSE <<>>

\* The field of a step's output a generic token is rewritten to; <<>> when
\* the output has no key at all
ChosenField(out) ==
    IF HasKey(out, <<"rows">>) THEN <<"rows">>
    ELSE IF HasKey(out, <<"data_rows">>) THEN <<"data_rows">>
    ELSE IF HasKey(out, <<"output">>) THEN <<"output">>
    ELSE IF Len(out.v) > 0 THEN Keys(out)[1]
    ELSE <<>>

\* value.replace("{ph}", "{step_id.field}") of one token
RewriteToken(value, ph, step_id, results) ==
    LET out == Lookup(results, step_id)
        field == ChosenField(out)
    IN  IF HasKey(out, <<"rows">>) \/ HasKey(out, <<"data_rows">>)
           \/ HasKey(out, <<"output">>) \/ Len(out.v) > 0
        THEN Replace(value, Braced(ph), Braced(step_id \o <<".">> \o field))
        ELSE value

\* The body of "for ph in matches" for one ph
PreprocessToken(value, ph, depends_on, results) ==
    IF ph \in GenericTokens
    THEN LET prev_step_id == MostRecentDependency(depends_on, results)
         IN  IF Len(prev_step_id) > 0
             THEN RewriteToken(value, ph, prev_step_id, results)
             ELSE value
    ELSE IF IsNumberedToken(ph)
    THEN LET step_id == <<ph[1]>>
         IN  IF HasKey(results, step_id)
             THEN RewriteToken(value, ph, step_id, results)
             ELSE value
    ELSE value

RECURSIVE PreprocessMatches(_, _, _, _)
PreprocessMatches(value, matches, depends_on, results) ==
    IF Len(matches) = 0 THEN value
    ELSE PreprocessMatches(PreprocessToken(value, Head(matches), depends_on, results),
                           Tail(matches), depends_on, results)

\* The string branch of _preprocess_placeholders
PreprocessString(value, depends_on, results) ==
    PreprocessMatches(value, FindAll(value), depends_on, results)

RECURSIVE PreprocessPlaceholders(_, _, _)
\* ToolSelector._preprocess_placeholders
PreprocessPlaceholders(args, depends_on, results) ==
    LET elem(x) ==
            IF IsStr(x) THEN Str(PreprocessString(x.v, depends_on, results))
            ELSE IF IsDict(x) THEN PreprocessPlaceholders(x, depends_on, results)
            ELSE x
        one(x) ==
            IF IsStr(x) THEN Str(PreprocessString(x.v, depends_on, results))
            ELSE IF IsList(x) THEN List([n \in 1..Len(x.v) |-> elem(x.v[n])])
            ELSE IF IsDict(x) THEN PreprocessPlaceholders(x, depends_on, results)
            ELSE x
    IN  Dict([n \in 1..Len(args.v) |-> Item(args.v[n].k, one(args.v[n].val))])

RECURSIVE Traverse(_, _, _)
\* for part in path: value = value.get(part) while value is a dict
Traverse(value, path, placeholder) ==
    IF Len(path) = 0 THEN value
    ELSE IF IsDict(value)
         THEN Traverse(Get(value, Head(path)), Tail(path), placeholder)
         ELSE Str(Braced(placeholder))

\* Mutant: a source that is neither the blackboard, a recorded step nor env
\* resolves to None
ResolvePlaceholderNone(placeholder, bb, results, env) ==
    LET parts == SplitDots(placeholder)
        source == parts[1]
        path == Tail(parts)
    IN  IF Len(parts) < 2 THEN GetOr(bb, placeholder, Str(Braced(placeholder)))
        ELSE IF source = <<"blackboard">> THEN Traverse(bb, path, placeholder)
        ELSE IF HasKey(results, source)
             THEN Traverse(Lookup(results, source), path, placeholder)
        ELSE IF source = <<"env">> THEN GetOr(env, path[1], Str(Braced(placeholder)))
        ELSE None

\* Mutant: an unset environment variable resolves to the empty string
ResolvePlaceholderEnvEmpty(placeholder, bb, results, env) ==
    LET parts == SplitDots(placeholder)
        source == parts[1]
        path == Tail(parts)
    IN  IF Len(parts) < 2 THEN GetOr(bb, placeholder, Str(Braced(placeholder)))
        ELSE IF source = <<"blackboard">> THEN Traverse(bb, path, placeholder)
        ELSE IF HasKey(results, source)
             THEN Traverse(Lookup(results, source), path, placeholder)
        ELSE IF source = <<"env">> THEN GetOr(env, path[1], Str(<<>>))
        ELSE Str(Braced(placeholder))

\* ToolSelector._resolve_placeholder
ResolvePlaceholder(placeholder, bb, results, env) ==
    LET parts == SplitDots(placeholder)
        source == parts[1]
        path == Tail(parts)
    IN  IF Len(parts) < 2 THEN GetOr(bb, placeholder, Str(Braced(placeholder)))
        ELSE IF source = <<"blackboard">> THEN Traverse(bb, path, placeholder)
        ELSE IF HasKey(results, source)
             THEN Traverse(Lookup(results, source), path, placeholder)
        ELSE IF source = <<"env">> THEN GetOr(env, path[1], Str(Braced(placeholder)))
        ELSE Str(Braced(placeholder))

RECURSIVE Substitute(_, _, _, _, _)
\* for match in matches: result = result.replace("{match}", str(resolved))
Substitute(result, matches, bb, results, env) ==
    IF Len(matches) = 0 THEN result
    ELSE Substitute(Replace(result, Braced(Head(matches)),
                            PyStr(ResolvePlaceholder(Head(matches), bb, results, env))),
                    Tail(matches), bb, results, env)

\* Mutant: a string that is one placeholder is substituted as text like any
\* other
ResolveStringText(value, bb, results, env) ==
    LET matches == FindAll(value)
    IN  IF Len(matches) = 0 THEN Str(value)
        ELSE Str(Substitute(value, matches, bb, results, env))

\* Mutant: a string without a placeholder loses its opening braces
ResolveStringStripped(value, bb, results, env) ==
    LET matches == FindAll(value)
    IN  IF Len(matches) = 0 THEN Str(Replace(value, <<"{">>, <<>>))
        ELSE IF Len(matches) = 1 /\ value = Braced(matches[1])
             THEN ResolvePlaceholder(matches[1], bb, results, env)
        ELSE Str(Substitute(value, matches, bb, results, env))

\* ToolSelector._resolve_string
ResolveString(value, bb, results, env) ==
    LET matches == FindAll(value)
    IN  IF Len(matches) = 0 THEN Str(value)
        ELSE IF Len(matches) = 1 /\ value = Braced(matches[1])
             THEN ResolvePlaceholder(matches[1], bb, results, env)
        ELSE Str(Substitute(value, matches, bb, results, env))

RECURSIVE ResolveArguments(_, _, _, _)
\* ToolSelector._resolve_arguments
ResolveArguments(args, bb, results, env) ==
    LET elem(x) == IF IsStr(x) THEN ResolveString(x.v, bb, results, env) ELSE x
        one(x) ==
            IF IsStr(x) THEN ResolveString(x.v, bb, results, env)
            ELSE IF IsList(x) THEN List([n \in 1..Len(x.v) |-> elem(x.v[n])])
            ELSE IF IsDict(x) THEN ResolveArguments(x, bb, results, env)
            ELSE x
    IN  Dict([n \in 1..Len(args.v) |-> Item(args.v[n].k, one(args.v[n].val))])

\* ToolSelector.prepare_tool_request
PrepareToolRequest(step, bb, results, env) ==
    [name |-> step.tool,
     args |-> ResolveArguments(
                  PreprocessPlaceholders(step.args, step.depends_on, results),
                  bb, results, env),
     depends_on |-> step.depends_on,
     request_id |-> step.step_id]

\* The tools of the required_args table of validate_tool_request
TableTools ==
    {"extract_webpage", "extract_pdf", "caption_image", "google_sheets_upsert",
     "google_drive_share", "gmail_send", "telegram_send"}

\* required_args[tool_name], in table order
RequiredArgs(tool) ==
    CASE tool = "extract_webpage" -> <<(<<"url">>)>>
      [] tool = "extract_pdf" -> <<(<<"path">>)>>
      [] tool = "caption_image" -> <<(<<"image_url_or_path">>)>>
      [] tool = "google_sheets_upsert" ->
            <<(<<"spreadsheet_title">>), (<<"sheet_name">>), (<<"rows">>)>>
      [] tool = "google_drive_share" -> <<(<<"file_id">>)>>
      [] tool = "gmail_send" -> <<(<<"to">>), (<<"subject">>)>>
      [] tool = "telegram_send" -> <<(<<"chat_id">>), (<<"text">>)>>
      [] OTHER -> <<>>

\* arg not in request.args or request.args[arg] is None
ArgMissing(args, arg) == ~HasKey(args, arg) \/ IsNone(Lookup(args, arg))

\* isinstance(value, str) and "{" in value and "}" in value
ArgUnresolved(args, arg) ==
    /\ HasKey(args, arg)
    /\ IsStr(Lookup(args, arg))
    /\ HasBraces(Lookup(args, arg).v)

Valid == [valid |-> TRUE, error |-> None]

Invalid(message) == [valid |-> FALSE, error |-> Str(message)]

\* Mutant: the reason names the last offending argument
ValidateToolRequestLast(request) ==
    LET required == RequiredArgs(request.name)
        bad(n) == ArgMissing(request.args, required[n])
                    \/ ArgUnresolved(request.args, required[n])
    IN  IF request.name \notin TableTools THEN Valid
        ELSE IF \E n \in 1..Len(required) : bad(n)
        THEN LET n == CHOOSE m \in 1..Len(required) :
                        bad(m) /\ \A l \in (m + 1)..Len(required) : ~bad(l)
                 arg == required[n]
             IN  IF ArgMissing(request.args, arg)
                 THEN Invalid(<<"Missing required argument: ">> \o arg)
                 ELSE Invalid(<<"Unresolved placeholder in argument: ">> \o arg
                              \o <<" = ">> \o Lookup(request.args, arg).v)
        ELSE Valid

\* ToolSelector.validate_tool_request
ValidateToolRequest(request) ==
    LET required == RequiredArgs(request.name)
        bad(n) == ArgMissing(request.args, required[n])
                    \/ ArgUnresolved(request.args, required[n])
    IN  IF request.name \notin TableTools THEN Valid
        ELSE IF \E n \in 1..Len(required) : bad(n)
        THEN LET n == CHOOSE m \in 1..Len(required) :
                        bad(m) /\ \A l \in 1..(m - 1) : ~bad(l)
                 arg == required[n]
             IN  IF ArgMissing(request.args, arg)
                 THEN Invalid(<<"Missing required argument: ">> \o arg)
                 ELSE Invalid(<<"Unresolved placeholder in argument: ">> \o arg
                              \o <<" = ">> \o Lookup(request.args, arg).v)
        ELSE Valid

\* ------------------------------------------------------------ ToolExecutor

\* The keys of TaskPlanner.tool_catalog
ToolCatalog ==
    {"extract_webpage", "extract_pdf", "caption_image", "google_sheets_upsert",
     "google_drive_share", "gmail_send", "telegram_send"}

\* Mutant: a handler is registered for the tool python
HandlerToolsWithPython ==
    {"extract_webpage", "extract_pdf", "caption_image", "google_sheets_upsert",
     "google_drive_share", "gmail_send", "telegram_send", "python"}

\* The keys of ToolExecutor.tool_handlers
HandlerTools ==
    {"extract_webpage", "extract_pdf", "caption_image", "google_sheets_upsert",
     "google_drive_share", "gmail_send", "telegram_send"}

\* key_mappings.get(step.tool, {}) of _update_blackboard, as items
\* (output key, blackboard key) in table order
KeyMappings(tool) ==
    CASE tool = "google_sheets_upsert" ->
            <<Item(<<"spreadsheet_id">>, <<"spreadsheet_id">>),
              Item(<<"sheet_url">>, <<"sheet_url">>)>>
      [] tool = "google_drive_share" -> <<Item(<<"link">>, <<"share_link">>)>>
      [] tool = "gmail_send" -> <<Item(<<"message_id">>, <<"email_message_id">>)>>
      [] tool = "extract_webpage" ->
            <<Item(<<"markdown">>, <<"extracted_content">>),
              Item(<<"rows">>, <<"data_rows">>)>>
      [] OTHER -> <<>>

RECURSIVE ProjectMappings(_, _, _)
\* for output_key, blackboard_key in mappings.items(): ...
ProjectMappings(bb, mappings, output) ==
    IF Len(mappings) = 0 THEN bb
    ELSE ProjectMappings(
            IF HasKey(output, Head(mappings).k)
            THEN Put(bb, Head(mappings).val, Lookup(output, Head(mappings).k))
            ELSE bb,
            Tail(mappings), output)

\* f"step_{step.step_id}"
StepKey(step_id) == <<"step_">> \o step_id

\* Mutant: only the projected keys are written
UpdateBlackboardProjected(bb, step, output) ==
    ProjectMappings(bb, KeyMappings(step.tool), output)

\* Mutant: the blackboard is replaced by what the step projects
UpdateBlackboardFresh(bb, step, output) ==
    Put(ProjectMappings(EmptyDict, KeyMappings(step.tool), output),
        StepKey(step.step_id), output)

\* ToolExecutor._update_blackboard
UpdateBlackboard(bb, step, output) ==
    Put(ProjectMappings(bb, KeyMappings(step.tool), output), StepKey(step.step_id), output)

\* ToolResult(request_id, name, success, output, error); output defaults to {}
ToolResult(request_id, name, success, output, error) ==
    [request_id |-> request_id, name |-> name, success |-> success,
     output |-> output, error |-> error]

\* The mappings a tool handler can return for a request (the servers behind
\* the handlers are outside the program: one representative answer each)
ToolOutputs(request) ==
    CASE request.name = "extract_webpage" ->
            {Dict(<<Item(<<"markdown">>, Str(<<"| a | 1 |">>)),
                    Item(<<"rows">>, List(<<List(<<Str(<<"a">>), Str(<<"1">>)>>)>>)),
                    Item(<<"url">>, Get(request.args, <<"url">>))>>)}
      [] request.name = "extract_pdf" ->
            {Dict(<<Item(<<"markdown">>, Str(<<"text">>)),
                    Item(<<"doc_id">>, Str(<<"doc1">>))>>)}
      [] request.name = "caption_image" ->
            {Dict(<<Item(<<"alt_text">>, Str(<<"Image: ">> \o
                                            PyStr(Get(request.args, <<"image_url_or_path">>)))),
                    Item(<<"image_ref">>, Get(request.args, <<"image_url_or_path">>))>>)}
      [] request.name = "google_sheets_upsert" ->
            {Dict(<<Item(<<"spreadsheet_id">>, Str(<<"sheet1">>)),
                    Item(<<"sheet_url">>, Str(<<"https://sheets/sheet1">>))>>)}
      [] request.name = "google_drive_share" ->
            {Dict(<<Item(<<"link">>, Str(<<"https://drive/link1">>))>>)}
      [] request.name = "gmail_send" ->
            {Dict(<<Item(<<"message_id">>, Str(<<"msg1">>))>>)}
      [] request.name = "telegram_send" ->
            {Dict(<<Item(<<"ok">>, Str(<<"True">>)),
                    Item(<<"chat_id">>, Get(request.args, <<"chat_id">>)),
                    Item(<<"message_id">>, Str(<<"1">>))>>)}
      [] OTHER -> {}

\* str(e) of an exception a handler raised
HandlerErrors == {<<"SSE server error">>}

\* ------------------------------------------------------------------- plans

\* The step shapes plans are drawn from: tool and raw args
\*   extract : the first step of the planner's rule-based plan
\*   upsert  : its second step, whose rows refer to step1's output
\*   python  : a step naming a tool that has no handler
StepKinds == {"extract", "upsert", "python"}

\* Further step shapes, met in plans that are chains:
\*   share   : the third step of the rule-based plan, referring to step1
\*   report  : its fourth step, the text of the mail holding a generic token
\*   email   : a mail to the address of the environment
\*   notify  : a message to the chat of the environment
\*   bare    : a step without arguments
\*   caption : a step whose argument holds an opening brace only
\*   batch   : rows given as a list whose elements are a string, a list, a
\*             mapping and null, and a mapping inside a mapping
ChainKinds == {"share", "report", "email", "notify", "bare", "caption", "batch"}

KindTool(kind) ==
    CASE kind = "extract" -> "extract_webpage"
      [] kind = "upsert" -> "google_sheets_upsert"
      [] kind = "python" -> "python"
      [] kind = "share" -> "google_drive_share"
      [] kind = "report" -> "gmail_send"
      [] kind = "email" -> "gmail_send"
      [] kind = "notify" -> "telegram_send"
      [] kind = "bare" -> "extract_pdf"
      [] kind = "caption" -> "caption_image"
      [] kind = "batch" -> "google_sheets_upsert"

KindArgs(kind) ==
    CASE kind = "extract" ->
            Dict(<<Item(<<"url">>, Str(<<"https://example", ".", "com">>))>>)
      [] kind = "upsert" ->
            Dict(<<Item(<<"spreadsheet_title">>, Str(<<"F1_2025_Driver_Standings">>)),
                   Item(<<"sheet_name">>, Str(<<"Drivers_2025">>)),
                   Item(<<"rows">>, Str(<<"{", "step1", ".", "rows", "}">>))>>)
      [] kind = "python" -> EmptyDict
      [] kind = "share" ->
            Dict(<<Item(<<"file_id">>, Str(<<"{", "step1", ".", "spreadsheet_id", "}">>)),
                   Item(<<"role">>, Str(<<"reader">>)),
                   Item(<<"type">>, Str(<<"anyone">>))>>)
      [] kind = "report" ->
            Dict(<<Item(<<"to">>, Str(<<"your_email@example", ".", "com">>)),
                   Item(<<"subject">>, Str(<<"F1 Standings Sheet">>)),
                   Item(<<"html">>,
                        Str(<<"F1 standings sheet: ", "{", "prev_step_output", "}">>))>>)
      [] kind = "email" ->
            Dict(<<Item(<<"to">>, Str(<<"{", "env", ".", "SELF_EMAIL", "}">>)),
                   Item(<<"subject">>, Str(<<"{", "step1", ".", "title", "}">>))>>)
      [] kind = "notify" ->
            Dict(<<Item(<<"chat_id">>, Str(<<"{", "env", ".", "TELEGRAM_CHAT_ID", "}">>)),
                   Item(<<"text">>, Str(<<"{", "blackboard", ".", "sheet_url", "}">>))>>)
      [] kind = "bare" -> EmptyDict
      [] kind = "caption" ->
            Dict(<<Item(<<"image_url_or_path">>, Str(<<"img", "{", "1">>))>>)
      [] kind = "batch" ->
            LET link == Str(<<"{", "blackboard", ".", "sheet_url", "}">>)
            IN  Dict(<<Item(<<"spreadsheet_title">>, Str(<<"Links">>)),
                       Item(<<"sheet_name">>, Str(<<"Sheet1">>)),
                       Item(<<"rows">>,
                            List(<<link, List(<<link>>),
                                   Dict(<<Item(<<"url">>, link)>>), None>>)),
                       Item(<<"options">>,
                            Dict(<<Item(<<"note">>, Dict(<<Item(<<"url">>, link)>>)),
                                   Item(<<"limit">>, None)>>))>>)

RECURSIVE Ascending(_)
\* The members of a set of numbers, smallest first
Ascending(S) ==
    IF S = {} THEN <<>>
    ELSE LET m == CHOOSE x \in S : \A y \in S : x <= y
         IN  <<m>> \o Ascending(S \ {m})

\* PlanStep(step_id, tool, args, depends_on, status="pending", result=None)
PlanStep(step_id, tool, args, depends_on) ==
    [step_id |-> step_id, tool |-> tool, args |-> args, depends_on |-> depends_on,
     status |-> "pending", result |-> None]

\* ExecutionPlan(steps, status="pending")
ExecutionPlan(steps) == [steps |-> steps, status |-> "pending"]

\* The plan of n steps step1..stepn with the given kinds, step k depending on
\* the steps m with <<k, m>> in edges (an m above n names no step of the plan)
MakePlan(n, kinds, edges) ==
    ExecutionPlan(
        [k \in 1..n |->
            PlanStep(StepId(k), KindTool(kinds[k]), KindArgs(kinds[k]),
                     LET deps == Ascending({m \in 1..MaxSteps : <<k, m>> \in edges})
                     IN  [d \in 1..Len(deps) |-> StepId(deps[d])])])

\* The dependency tables of plans of n steps: at most MaxEdges entries
EdgeSets(n) ==
    {E \in SUBSET ((1..n) \X (1..MaxSteps)) : Cardinality(E) <= MaxEdges}

\* The dependency table of a chain: every step but the first depends on the
\* step before it, or no step depends on any
ChainEdges(n, linked) == IF linked THEN {<<k, k - 1>> : k \in 2..n} ELSE {}

\* plan is one of the plans execute_plan is run on: any dependency table over
\* steps of StepKinds, or a chain over steps of all kinds
IsPlan(p) ==
    \/ \E n \in 0..MaxSteps :
        \E kinds \in [1..n -> StepKinds], edges \in EdgeSets(n) :
            p = MakePlan(n, kinds, edges)
    \/ \E n \in 1..MaxChain :
        \E kinds \in [1..n -> StepKinds \cup ChainKinds], linked \in BOOLEAN :
            p = MakePlan(n, kinds, ChainEdges(n, linked))

\* The blackboards a caller hands to execute_plan: the entries of the
\* conversation so far (process_message)
Blackboards ==
    {Dict(<<Item(<<"sheet_url">>, Str(<<"https://sheets/old">>))>>)}

\* The environments (os.environ) the program runs in
Environs == {Dict(<<Item(<<"TELEGRAM_CHAT_ID">>, Str(<<"42">>))>>)}

\* ------------------------------------------------------------------- state

VARIABLES
    plan,             \* the ExecutionPlan: steps (with status, result) and status
    blackboard,       \* the blackboard dict handed to execute_plan
    environ,          \* os.environ
    completed_steps,  \* execute_plan's list of completed step ids
    step_results,     \* execute_plan's dict step id -> output
    pending_steps,    \* execute_plan's list of steps (positions in plan.steps)
    executable,       \* the steps of the current wave (positions in plan.steps)
    tasks,            \* the (step, coroutine) pairs of the current wave
    pc,               \* where execute_plan is
    i,                \* position of "for step in executable"
    j,                \* position of "for step, task in tasks"
    ret,              \* what execute_plan returned: <<>> before it returns, then <<success>>
    calls,            \* history: the steps whose handler was called, in order
    wave,             \* history: the number of waves begun
    wave_blackboard,  \* history: the blackboard when the current wave began
    memories,         \* WorkingMemoryManager.memories: conversation id -> the object
                      \* that is the blackboard of its WorkingMemory, 0 when absent
    heap,             \* the dicts that are blackboards, by object
    procs,            \* the calls of process_message and execute_workflow
    projected         \* history: per conversation, the entries its caller seeded
                      \* and its plan executions wrote

\* The state of the agent around execute_plan
agent_vars == <<memories, heap, procs, projected>>

vars ==
    <<plan, blackboard, environ, completed_steps, step_results, pending_steps,
      executable, tasks, pc, i, j, ret, calls, wave, wave_blackboard, memories, heap,
      procs, projected>>

NoReturn == <<>>

\* The conversation ids
Conversations == {"A", "B"}

\* A call of process_message or execute_workflow that has not been made
NoCall ==
    [phase |-> "waiting", entry |-> "", conversation |-> "",
     plan |-> ExecutionPlan(<<>>), blackboard |-> 0]

\* CursorAgent.__init__: WorkingMemoryManager with no memory, no call made
AgentCreated ==
    /\ memories = [c \in Conversations |-> 0]
    /\ heap = <<>>
    /\ procs = [m \in 1..MaxMessages |-> NoCall]
    /\ projected = [c \in Conversations |-> EmptyDict]

Init ==
    /\ AgentCreated
    /\ IsPlan(plan)
    /\ blackboard \in Blackboards
    /\ environ \in Environs
    /\ completed_steps = <<>>
    /\ step_results = EmptyDict
    /\ pending_steps = <<>>
    /\ executable = <<>>
    /\ tasks = <<>>
    /\ pc = "start"
    /\ i = 1
    /\ j = 1
    /\ ret = NoReturn
    /\ calls = <<>>
    /\ wave = 0
    /\ wave_blackboard = blackboard

\* x in xs, for a list xs
InList(x, xs) == \E n \in 1..Len(xs) : xs[n] = x

\* Mutant: any() in place of all()
DependenciesMetAny(step, completed) ==
    \/ Len(step.depends_on) = 0
    \/ \E n \in 1..Len(step.depends_on) : InList(step.depends_on[n], completed)

\* all(dep in completed_steps for dep in step.depends_on)
DependenciesMet(step, completed) ==
    \A n \in 1..Len(step.depends_on) : InList(step.depends_on[n], completed)

\* [step for step in pending_steps if all(...)]
Executable(steps, pending, completed) ==
    SelectSeq(pending, LAMBDA k : DependenciesMet(steps[k], completed))

\* Mutant: the steps of the wave stay in pending_steps
WithoutExecutableKept(pending, exec) == pending

\* [s for s in pending_steps if s not in executable]
WithoutExecutable(pending, exec) ==
    SelectSeq(pending, LAMBDA k : ~InList(k, exec))

\* return False, blackboard / return True, blackboard
Return(success) ==
    /\ ret' = <<success>>
    /\ pc' = "done"

\* execute_plan, lines 96-102
Begin ==
    /\ pc = "start"
    /\ completed_steps' = <<>>
    /\ step_results' = EmptyDict
    /\ plan' = [plan EXCEPT !.status = "in_progress"]
    /\ pending_steps' = [k \in 1..Len(plan.steps) |-> k]
    /\ pc' = "loop"
    /\ UNCHANGED <<blackboard, environ, executable, tasks, i, j, ret, calls, wave,
                   wave_blackboard>>
    /\ UNCHANGED agent_vars

\* "while pending_steps" with a non-empty list and a non-empty ready set:
\* lines 104-117
StartWave ==
    /\ pc = "loop"
    /\ Len(pending_steps) > 0
    /\ LET exec == Executable(plan.steps, pending_steps, completed_steps)
       IN  /\ Len(exec) > 0
           /\ executable' = exec
    /\ tasks' = <<>>
    /\ i' = 1
    /\ pc' = "prepare"
    /\ wave' = wave + 1
    /\ wave_blackboard' = blackboard
    /\ UNCHANGED <<plan, blackboard, environ, completed_steps, step_results,
                   pending_steps, j, ret, calls>>
    /\ UNCHANGED agent_vars

\* Mutant: an empty ready set leaves the loop as if the plan were finished
UnsatisfiableBreak ==
    /\ pc = "loop"
    /\ Len(pending_steps) > 0
    /\ Len(Executable(plan.steps, pending_steps, completed_steps)) = 0
    /\ plan' = [plan EXCEPT !.status = "completed"]
    /\ Return(TRUE)
    /\ UNCHANGED <<blackboard, environ, completed_steps, step_results, pending_steps,
                   executable, tasks, i, j, calls, wave, wave_blackboard>>
    /\ UNCHANGED agent_vars

\* Mutant: an empty ready set blames the first step still pending
UnsatisfiableBlame ==
    /\ pc = "loop"
    /\ Len(pending_steps) > 0
    /\ Len(Executable(plan.steps, pending_steps, completed_steps)) = 0
    /\ plan' = [plan EXCEPT !.status = "failed",
                            !.steps[pending_steps[1]].status = "failed"]
    /\ Return(FALSE)
    /\ UNCHANGED <<blackboard, environ, completed_steps, step_results, pending_steps,
                   executable, tasks, i, j, calls, wave, wave_blackboard>>
    /\ UNCHANGED agent_vars

\* "if not executable": lines 111-114
Unsatisfiable ==
    /\ pc = "loop"
    /\ Len(pending_steps) > 0
    /\ Len(Executable(plan.steps, pending_steps, completed_steps)) = 0
    /\ plan' = [plan EXCEPT !.status = "failed"]
    /\ Return(FALSE)
    /\ UNCHANGED <<blackboard, environ, completed_steps, step_results, pending_steps,
                   executable, tasks, i, j, calls, wave, wave_blackboard>>
    /\ UNCHANGED agent_vars

\* The loop ends: lines 162-165
Complete ==
    /\ pc = "loop"
    /\ Len(pending_steps) = 0
    /\ plan' = [plan EXCEPT !.status = "completed"]
    /\ Return(TRUE)
    /\ UNCHANGED <<blackboard, environ, completed_steps, step_results, pending_steps,
                   executable, tasks, i, j, calls, wave, wave_blackboard>>
    /\ UNCHANGED agent_vars

\* One pass of "for step in executable" whose request is valid: lines 118-127
\* and 140.  execute_tool(tool_request) makes the coroutine; nothing of it runs
\* before it is awaited.
PrepareValid ==
    /\ pc = "prepare"
    /\ LET k == executable[i]
           request == PrepareToolRequest(plan.steps[k], blackboard, step_results, environ)
       IN  /\ ValidateToolRequest(request).valid
           /\ plan' = [plan EXCEPT !.steps[k].status = "in_progress"]
           /\ tasks' = Append(tasks, [step |-> k, request |-> request, state |-> "created"])
    /\ IF i < Len(executable)
       THEN /\ i' = i + 1
            /\ UNCHANGED <<pc, j>>
       ELSE /\ pc' = "await"
            /\ j' = 1
            /\ UNCHANGED i
    /\ UNCHANGED <<blackboard, environ, completed_steps, step_results, pending_steps,
                   executable, ret, calls, wave, wave_blackboard>>
    /\ UNCHANGED agent_vars

\* Mutant: an invalid request fails its step and the loop over the ready
\* set goes on
PrepareInvalidSkip ==
    /\ pc = "prepare"
    /\ LET k == executable[i]
           step == plan.steps[k]
           request == PrepareToolRequest(step, blackboard, step_results, environ)
           verdict == ValidateToolRequest(request)
       IN  /\ ~verdict.valid
           /\ plan' = [plan EXCEPT
                          !.steps[k].status = "failed",
                          !.steps[k].result =
                              ToolResult(step.step_id, step.tool, FALSE, EmptyDict,
                                         verdict.error),
                          !.status = "failed"]
    /\ IF i < Len(executable)
       THEN /\ i' = i + 1
            /\ UNCHANGED <<pc, ret>>
       ELSE Return(FALSE) /\ UNCHANGED i
    /\ UNCHANGED <<blackboard, environ, completed_steps, step_results, pending_steps,
                   executable, tasks, j, calls, wave, wave_blackboard>>
    /\ UNCHANGED agent_vars

\* One pass of "for step in executable" whose request is not valid:
\* lines 118-137
PrepareInvalid ==
    /\ pc = "prepare"
    /\ LET k == executable[i]
           step == plan.steps[k]
           request == PrepareToolRequest(step, blackboard, step_results, environ)
           verdict == ValidateToolRequest(request)
       IN  /\ ~verdict.valid
           /\ plan' = [plan EXCEPT
                          !.steps[k].status = "failed",
                          !.steps[k].result =
                              ToolResult(step.step_id, step.tool, FALSE, EmptyDict,
                                         verdict.error),
                          !.status = "failed"]
    /\ Return(FALSE)
    /\ UNCHANGED <<blackboard, environ, completed_steps, step_results, pending_steps,
                   executable, tasks, i, j, calls, wave, wave_blackboard>>
    /\ UNCHANGED agent_vars

\* "result = await task" starts the coroutine of tasks[j]; execute_tool finds
\* no handler and returns at once: lines 55-63, then 145 and 154-157
AwaitUnknownTool ==
    /\ pc = "await"
    /\ tasks[j].state = "created"
    /\ tasks[j].request.name \notin HandlerTools
    /\ LET k == tasks[j].step
           request == tasks[j].request
       IN  plan' = [plan EXCEPT
                       !.steps[k].result =
                           ToolResult(request.request_id, request.name, FALSE, EmptyDict,
                                      Str(<<"Unknown tool: ", request.name>>)),
                       !.steps[k].status = "failed",
                       !.status = "failed"]
    /\ tasks' = [tasks EXCEPT ![j].state = "finished"]
    /\ Return(FALSE)
    /\ UNCHANGED <<blackboard, environ, completed_steps, step_results, pending_steps,
                   executable, i, j, calls, wave, wave_blackboard>>
    /\ UNCHANGED agent_vars

\* "result = await task" starts the coroutine of tasks[j]; execute_tool calls
\* the handler: lines 55 and 66
AwaitCallHandler ==
    /\ pc = "await"
    /\ tasks[j].state = "created"
    /\ tasks[j].request.name \in HandlerTools
    /\ tasks' = [tasks EXCEPT ![j].state = "running"]
    /\ calls' = Append(calls, tasks[j].step)
    /\ UNCHANGED <<plan, blackboard, environ, completed_steps, step_results,
                   pending_steps, executable, pc, i, j, ret, wave, wave_blackboard>>
    /\ UNCHANGED agent_vars

\* Mutant: the ready set is computed again as soon as one task of the wave
\* has returned
HandlerReturnsEarly ==
    /\ pc = "await"
    /\ tasks[j].state = "running"
    /\ \E output \in ToolOutputs(tasks[j].request) :
        LET k == tasks[j].step
            request == tasks[j].request
            step == plan.steps[k]
        IN  /\ plan' = [plan EXCEPT
                           !.steps[k].result =
                               ToolResult(request.request_id, request.name, TRUE, output,
                                          None),
                           !.steps[k].status = "completed"]
            /\ completed_steps' = Append(completed_steps, step.step_id)
            /\ step_results' = Put(step_results, step.step_id, output)
            /\ blackboard' = UpdateBlackboard(blackboard, step, output)
    /\ tasks' = [tasks EXCEPT ![j].state = "finished"]
    /\ pending_steps' = WithoutExecutable(pending_steps, <<tasks[j].step>>)
    /\ pc' = "loop"
    /\ UNCHANGED <<environ, executable, i, j, ret, calls, wave, wave_blackboard>>
    /\ UNCHANGED agent_vars

\* Mutant: the arguments of the tasks not yet awaited are resolved again
\* whenever a task of the wave has returned
HandlerReturnsRefresh ==
    /\ pc = "await"
    /\ tasks[j].state = "running"
    /\ \E output \in ToolOutputs(tasks[j].request) :
        LET k == tasks[j].step
            request == tasks[j].request
            step == plan.steps[k]
        IN  /\ plan' = [plan EXCEPT
                           !.steps[k].result =
                               ToolResult(request.request_id, request.name, TRUE, output,
                                          None),
                           !.steps[k].status = "completed"]
            /\ completed_steps' = Append(completed_steps, step.step_id)
            /\ step_results' = Put(step_results, step.step_id, output)
            /\ blackboard' = UpdateBlackboard(blackboard, step, output)
            /\ tasks' = [n \in 1..Len(tasks) |->
                            IF n = j THEN [tasks[n] EXCEPT !.state = "finished"]
                            ELSE IF n < j THEN tasks[n]
                            ELSE [tasks[n] EXCEPT !.request =
                                    PrepareToolRequest(
                                        plan.steps[tasks[n].step],
                                        UpdateBlackboard(blackboard, step, output),
                                        Put(step_results, step.step_id, output),
                                        environ)]]
    /\ IF j < Len(tasks)
       THEN /\ j' = j + 1
            /\ UNCHANGED <<pc, pending_steps>>
       ELSE /\ pending_steps' = WithoutExecutable(pending_steps, executable)
            /\ pc' = "loop"
            /\ UNCHANGED j
    /\ UNCHANGED <<environ, executable, i, ret, calls, wave, wave_blackboard>>
    /\ UNCHANGED agent_vars

\* The handler returns an output: lines 67-72, then 145-153; after the last
\* task of the wave, line 160
HandlerReturns ==
    /\ pc = "await"
    /\ tasks[j].state = "running"
    /\ \E output \in ToolOutputs(tasks[j].request) :
        LET k == tasks[j].step
            request == tasks[j].request
            step == plan.steps[k]
        IN  /\ plan' = [plan EXCEPT
                           !.steps[k].result =
                               ToolResult(request.request_id, request.name, TRUE, output,
                                          None),
                           !.steps[k].status = "completed"]
            /\ completed_steps' = Append(completed_steps, step.step_id)
            /\ step_results' = Put(step_results, step.step_id, output)
            /\ blackboard' = UpdateBlackboard(blackboard, step, output)
    /\ tasks' = [tasks EXCEPT ![j].state = "finished"]
    /\ IF j < Len(tasks)
       THEN /\ j' = j + 1
            /\ UNCHANGED <<pc, pending_steps>>
       ELSE /\ pending_steps' = WithoutExecutable(pending_steps, executable)
            /\ pc' = "loop"
            /\ UNCHANGED j
    /\ UNCHANGED <<environ, executable, i, ret, calls, wave, wave_blackboard>>
    /\ UNCHANGED agent_vars

\* Mutant: a failed result marks the step and the plan, and the loop over
\* the tasks goes on instead of returning
HandlerRaisesContinue ==
    /\ pc = "await"
    /\ tasks[j].state = "running"
    /\ \E message \in HandlerErrors :
        LET k == tasks[j].step
            request == tasks[j].request
        IN  plan' = [plan EXCEPT
                        !.steps[k].result =
                            ToolResult(request.request_id, request.name, FALSE, EmptyDict,
                                       Str(message)),
                        !.steps[k].status = "failed",
                        !.status = "failed"]
    /\ tasks' = [tasks EXCEPT ![j].state = "finished"]
    /\ IF j < Len(tasks)
       THEN /\ j' = j + 1
            /\ UNCHANGED <<pc, pending_steps>>
       ELSE /\ pending_steps' = WithoutExecutable(pending_steps, executable)
            /\ pc' = "loop"
            /\ UNCHANGED j
    /\ UNCHANGED <<blackboard, environ, completed_steps, step_results, executable, i,
                   ret, calls, wave, wave_blackboard>>
    /\ UNCHANGED agent_vars

\* Mutant: a failed result puts the step back to pending
HandlerRaisesReset ==
    /\ pc = "await"
    /\ tasks[j].state = "running"
    /\ \E message \in HandlerErrors :
        LET k == tasks[j].step
            request == tasks[j].request
        IN  plan' = [plan EXCEPT
                        !.steps[k].result =
                            ToolResult(request.request_id, request.name, FALSE, EmptyDict,
                                       Str(message)),
                        !.steps[k].status = "pending",
                        !.status = "failed"]
    /\ tasks' = [tasks EXCEPT ![j].state = "finished"]
    /\ Return(FALSE)
    /\ UNCHANGED <<blackboard, environ, completed_steps, step_results, pending_steps,
                   executable, i, j, calls, wave, wave_blackboard>>
    /\ UNCHANGED agent_vars

\* The handler raises: lines 73-79, then 145 and 154-157
HandlerRaises ==
    /\ pc = "await"
    /\ tasks[j].state = "running"
    /\ \E message \in HandlerErrors :
        LET k == tasks[j].step
            request == tasks[j].request
        IN  plan' = [plan EXCEPT
                        !.steps[k].result =
                            ToolResult(request.request_id, request.name, FALSE, EmptyDict,
                                       Str(message)),
                        !.steps[k].status = "failed",
                        !.status = "failed"]
    /\ tasks' = [tasks EXCEPT ![j].state = "finished"]
    /\ Return(FALSE)
    /\ UNCHANGED <<blackboard, environ, completed_steps, step_results, pending_steps,
                   executable, i, j, calls, wave, wave_blackboard>>
    /\ UNCHANGED agent_vars

Next ==
    \/ Begin
    \/ StartWave
    \/ Unsatisfiable
    \/ Complete
    \/ PrepareValid
    \/ PrepareInvalid
    \/ AwaitUnknownTool
    \/ AwaitCallHandler
    \/ HandlerReturns
    \/ HandlerRaises

Spec == Init /\ [][Next]_vars

\* The steps of execute_plan outside the loop over the ready set
Run ==
    \/ Begin
    \/ StartWave
    \/ Unsatisfiable
    \/ Complete
    \/ AwaitUnknownTool
    \/ AwaitCallHandler
    \/ HandlerReturns
    \/ HandlerRaises

\* One pass of "for step in executable", lines 118-140
Prepare == PrepareValid \/ PrepareInvalid

\* execute_plan runs on, and every handler that was called returns or raises:
\* weak fairness of Run and of Prepare, the latter written with its enabling
\* condition spelled out (a pass of the loop over the ready set is enabled
\* exactly while pc = "prepare": the request is valid or it is not)
FairSpec ==
    /\ Spec
    /\ WF_vars(Run)
    /\ ([]<>(pc # "prepare") \/ []<><<Prepare>>_vars)

\* The largest number of steps the model answers to refine_plan with
MaxRefined == 1

\* The steps refine_plan keeps of an answer: those whose tool is in the
\* catalog, lines 303-322
RefinedSteps(steps_data) ==
    SelectSeq(steps_data, LAMBDA step : step.tool \in ToolCatalog)

\* TaskPlanner.refine_plan on the plan execute_plan has returned from, the
\* model answering with at most MaxRefined steps: lines 264-336.  A failed
\* call of the model, or an answer with no valid step, leaves the plan as it
\* is (lines 324-327, 334-336).
RefinePlan ==
    /\ pc = "done"
    /\ \E n \in 0..MaxRefined :
        \E kinds \in [1..n -> StepKinds] :
            LET new_steps == RefinedSteps(MakePlan(n, kinds, {}).steps)
            IN  IF Len(new_steps) = 0
                THEN plan' = plan
                ELSE plan' = [plan EXCEPT !.steps = new_steps, !.status = "pending"]
    /\ pc' = "refined"
    /\ UNCHANGED <<blackboard, environ, completed_steps, step_results, pending_steps,
                   executable, tasks, i, j, ret, calls, wave, wave_blackboard>>
    /\ UNCHANGED agent_vars

\* execute_plan, or refine_plan after it
RefineNext == Next \/ RefinePlan

\* One run of execute_plan on a plan, then one call of refine_plan on it
RefineSpec == Init /\ [][RefineNext]_vars

\* ------------------------------------------------- execute_plan as a whole

\* What execute_plan holds between two awaits, as far as its return value
\* depends on it
Progress(completed, results, bb, success) ==
    [completed |-> completed, results |-> results, blackboard |-> bb,
     success |-> success]

\* "for step in executable", lines 118-140: the requests of the wave, all
\* made from the blackboard and the outputs the wave began with
WaveRequests(steps, exec, bb, results, env) ==
    [n \in 1..Len(exec) |->
        [step |-> exec[n],
         request |-> PrepareToolRequest(steps[exec[n]], bb, results, env)]]

RECURSIVE AwaitTasks(_, _, _, _)
\* "for step, task in tasks", lines 143-157, the handlers of the steps in
\* raising raising and every other handler returning its output
AwaitTasks(steps, reqs, at, raising) ==
    IF Len(reqs) = 0 THEN at
    ELSE LET k == Head(reqs).step
             request == Head(reqs).request
         IN  IF request.name \notin HandlerTools \/ k \in raising
             THEN [at EXCEPT !.success = FALSE]
             ELSE LET output == CHOOSE o \in ToolOutputs(request) : TRUE
                  IN  AwaitTasks(steps, Tail(reqs),
                                 Progress(Append(at.completed, steps[k].step_id),
                                          Put(at.results, steps[k].step_id, output),
                                          UpdateBlackboard(at.blackboard, steps[k], output),
                                          TRUE),
                                 raising)

RECURSIVE RunWaves(_, _, _, _, _)
\* "while pending_steps", lines 104-165
RunWaves(steps, pending, at, env, raising) ==
    IF Len(pending) = 0 THEN [at EXCEPT !.success = TRUE]
    ELSE LET exec == Executable(steps, pending, at.completed)
             reqs == WaveRequests(steps, exec, at.blackboard, at.results, env)
         IN  IF Len(exec) = 0 THEN [at EXCEPT !.success = FALSE]
             ELSE IF \E n \in 1..Len(reqs) : ~ValidateToolRequest(reqs[n].request).valid
             THEN [at EXCEPT !.success = FALSE]
             ELSE LET after == AwaitTasks(steps, reqs, at, raising)
                  IN  IF after.success
                      THEN RunWaves(steps, WithoutExecutable(pending, exec), after, env,
                                    raising)
                      ELSE after

\* ToolExecutor.execute_plan from call to return: (success, blackboard)
ExecutePlan(p, bb, env, raising) ==
    LET at == RunWaves(p.steps, [k \in 1..Len(p.steps) |-> k],
                       Progress(<<>>, EmptyDict, bb, TRUE), env, raising)
    IN  [success |-> at.success, blackboard |-> at.blackboard]

\* ----------------------------------------------------------- TaskPlanner

\* The goals of a message: whether it names f1 with standings or driver, and
\* the mail address found in it (<<>> when there is none)
Goals == {[f1 |-> TRUE, email |-> <<>>], [f1 |-> FALSE, email |-> <<>>]}

\* The page of the standings when F1_STANDINGS_URL is not set
DefaultStandingsUrl ==
    Str(<<"https://www", ".", "formula1", ".", "com/en/results/2025/drivers">>)

\* TaskPlanner._rule_based_plan
RuleBasedPlan(goal, env) ==
    IF goal.f1
    THEN LET to_email == IF Len(goal.email) > 0 THEN Str(goal.email)
                         ELSE GetOr(env, <<"SELF_EMAIL">>,
                                    Str(<<"your_email@example", ".", "com">>))
             f1_url == GetOr(env, <<"F1_STANDINGS_URL">>, DefaultStandingsUrl)
         IN  <<PlanStep(StepId(1), "extract_webpage",
                        Dict(<<Item(<<"url">>, f1_url)>>), <<>>),
               PlanStep(StepId(2), "google_sheets_upsert",
                        Dict(<<Item(<<"spreadsheet_title">>,
                                    Str(<<"F1_2025_Driver_Standings">>)),
                               Item(<<"sheet_name">>, Str(<<"Drivers_2025">>)),
                               Item(<<"rows">>, Str(<<"{", "step1", ".", "rows", "}">>))>>),
                        <<StepId(1)>>),
               PlanStep(StepId(3), "google_drive_share",
                        Dict(<<Item(<<"file_id">>,
                                    Str(<<"{", "step2", ".", "spreadsheet_id", "}">>)),
                               Item(<<"role">>, Str(<<"reader">>)),
                               Item(<<"type">>, Str(<<"anyone">>))>>),
                        <<StepId(2)>>),
               PlanStep(StepId(4), "gmail_send",
                        Dict(<<Item(<<"to">>, to_email),
                               Item(<<"subject">>, Str(<<"F1 Standings Sheet">>)),
                               Item(<<"html">>,
                                    Str(<<"F1 standings sheet: ",
                                          "{", "step3", ".", "link", "}">>))>>),
                        <<StepId(3)>>)>>
    ELSE <<PlanStep(StepId(1), "extract_webpage",
                    Dict(<<Item(<<"url">>, Str(<<"https://example", ".", "com">>))>>),
                    <<>>)>>

\* The steps the planning model names: one with a tool of the catalog, one
\* with a tool outside it
AnswerKinds == {"extract", "python"}

\* What the planning model gives to _generate_steps: no usable answer (no
\* client, a failed call, text that is not a JSON array), or the steps of
\* its JSON array; each step has step_id (<<>> when the key is absent),
\* tool, args and depends_on
Answers ==
    {[ok |-> FALSE, steps_data |-> <<>>]}
    \cup UNION {{[ok |-> TRUE,
                  steps_data |-> MakePlan(n, kinds, ChainEdges(n, TRUE)).steps] :
                    kinds \in [1..n -> AnswerKinds]} : n \in 0..MaxAnswer}

RECURSIVE ValidSteps(_, _)
\* "for step_data in steps_data", lines 163-179: steps is the list so far
ValidSteps(steps_data, steps) ==
    IF Len(steps_data) = 0 THEN steps
    ELSE LET step_data == Head(steps_data)
         IN  IF step_data.tool \notin ToolCatalog
             THEN ValidSteps(Tail(steps_data), steps)
             ELSE ValidSteps(Tail(steps_data),
                             Append(steps,
                                    PlanStep(IF Len(step_data.step_id) = 0
                                             THEN StepId(Len(steps) + 1)
                                             ELSE step_data.step_id,
                                             step_data.tool, step_data.args,
                                             step_data.depends_on)))

\* TaskPlanner._generate_steps
GenerateSteps(goal, answer, env) ==
    IF ~answer.ok THEN RuleBasedPlan(goal, env)
    ELSE LET steps == ValidSteps(answer.steps_data, <<>>)
         IN  IF Len(steps) = 0 THEN RuleBasedPlan(goal, env) ELSE steps

\* TaskPlanner.create_plan
CreatePlan(goal, answer, env) == ExecutionPlan(GenerateSteps(goal, answer, env))

\* ----------------------------------------- WorkingMemoryManager, CursorAgent

\* The variables of one run of execute_plan
exec_vars ==
    <<plan, blackboard, environ, completed_steps, step_results, pending_steps,
      executable, tasks, pc, i, j, ret, calls, wave, wave_blackboard>>

\* The object of a dict made now
NewObject(h) == Len(h) + 1

\* Mutant: the WorkingMemory made for a conversation takes the blackboard
\* of a memory that exists
GetMemoryShared(mems, h, conversation_id) ==
    IF mems[conversation_id] # 0 THEN [memories |-> mems, heap |-> h]
    ELSE IF \E c \in Conversations : mems[c] # 0
    THEN [memories |-> [mems EXCEPT ![conversation_id] =
                            mems[CHOOSE c \in Conversations : mems[c] # 0]],
          heap |-> h]
    ELSE [memories |-> [mems EXCEPT ![conversation_id] = NewObject(h)],
          heap |-> Append(h, EmptyDict)]

\* WorkingMemoryManager.get_memory: memories and heap after the call; a
\* WorkingMemory made now has a blackboard of its own, empty
GetMemory(mems, h, conversation_id) ==
    IF mems[conversation_id] = 0
    THEN [memories |-> [mems EXCEPT ![conversation_id] = NewObject(h)],
          heap |-> Append(h, EmptyDict)]
    ELSE [memories |-> mems, heap |-> h]

RECURSIVE DictUpdate(_, _)
\* d.update(updates), updates given as its items
DictUpdate(d, updates) ==
    IF Len(updates) = 0 THEN d
    ELSE DictUpdate(Put(d, Head(updates).k, Head(updates).val), Tail(updates))

\* The entries execute_plan wrote: those of after that before lacks or holds
\* with another value
Written(before, after) ==
    SelectSeq(after.v, LAMBDA item :
        ~HasKey(before, item.k) \/ Lookup(before, item.k) # item.val)

\* The calls are made one after the other; each runs until it first waits
CanBegin(m) ==
    /\ procs[m].phase = "waiting"
    /\ \A n \in 1..(m - 1) : procs[n].phase # "waiting"

\* WorkingMemoryManager.set_blackboard_value by a caller, before any call of
\* the agent: the entry of Blackboards under its key
SetBlackboardValue ==
    /\ \A m \in 1..MaxMessages : procs[m].phase = "waiting"
    /\ \E conversation_id \in Conversations, seed \in Blackboards :
        LET key == seed.v[1].k
            value == seed.v[1].val
            memory == GetMemory(memories, heap, conversation_id)
            object == memory.memories[conversation_id]
        IN  /\ ~HasKey(projected[conversation_id], key)
            /\ memories' = memory.memories
            /\ heap' = [memory.heap EXCEPT ![object] = Put(@, key, value)]
            /\ projected' = [projected EXCEPT ![conversation_id] = Put(@, key, value)]
    /\ UNCHANGED procs
    /\ UNCHANGED exec_vars

\* CursorAgent.process_message from its call to the first wait inside
\* execute_plan: lines 110-143.  The blackboard handed to execute_plan is the
\* copy get_blackboard makes.
ProcessMessageBegin ==
    \E m \in 1..MaxMessages, conversation_id \in Conversations, goal \in Goals,
       answer \in Answers :
        LET memory == GetMemory(memories, heap, conversation_id)
            object == memory.memories[conversation_id]
        IN  /\ CanBegin(m)
            /\ memories' = memory.memories
            /\ heap' = Append(memory.heap, memory.heap[object])
            /\ procs' = [procs EXCEPT ![m] =
                            [phase |-> "running", entry |-> "process_message",
                             conversation |-> conversation_id,
                             plan |-> CreatePlan(goal, answer, environ),
                             blackboard |-> NewObject(memory.heap)]]
            /\ UNCHANGED projected
            /\ UNCHANGED exec_vars

\* update_blackboard(conversation_id, blackboard) after execute_plan left
\* result in the dict of object local, which held before
WriteBack(conversation_id, local, before, result) ==
    LET executed == [heap EXCEPT ![local] = result.blackboard]
        memory == GetMemory(memories, executed, conversation_id)
        object == memory.memories[conversation_id]
    IN  /\ memories' = memory.memories
        /\ heap' = [memory.heap EXCEPT ![object] = DictUpdate(@, result.blackboard.v)]
        /\ projected' = [projected EXCEPT ![conversation_id] =
                            DictUpdate(@, Written(before, result.blackboard))]

\* CursorAgent.process_message from there to its return: execute_plan ends,
\* the handler of step raising raising if it is called, and update_blackboard
\* writes the blackboard back: lines 143-166
ProcessMessageEnd ==
    \E m \in 1..MaxMessages :
        /\ procs[m].phase = "running"
        /\ procs[m].entry = "process_message"
        /\ \E raising \in 0..Len(procs[m].plan.steps) :
            WriteBack(procs[m].conversation, procs[m].blackboard,
                      heap[procs[m].blackboard],
                      ExecutePlan(procs[m].plan, heap[procs[m].blackboard], environ,
                                  {raising} \ {0}))
        /\ procs' = [procs EXCEPT ![m].phase = "returned"]
        /\ UNCHANGED exec_vars

\* CursorAgent.execute_workflow from its call to the first wait inside
\* execute_plan: lines 281-293.  The blackboard handed to execute_plan is a
\* new empty dict.
ExecuteWorkflowBegin ==
    \E m \in 1..MaxMessages, conversation_id \in Conversations, goal \in Goals,
       answer \in Answers :
        LET memory == GetMemory(memories, heap, conversation_id)
        IN  /\ CanBegin(m)
            /\ memories' = memory.memories
            /\ heap' = Append(memory.heap, EmptyDict)
            /\ procs' = [procs EXCEPT ![m] =
                            [phase |-> "running", entry |-> "execute_workflow",
                             conversation |-> conversation_id,
                             plan |-> CreatePlan(goal, answer, environ),
                             blackboard |-> NewObject(memory.heap)]]
            /\ UNCHANGED projected
            /\ UNCHANGED exec_vars

\* execute_plan left result in the dict of object local, which held before;
\* the dict is returned to the caller and nothing is written back
KeepLocal(conversation_id, local, before, result) ==
    /\ heap' = [heap EXCEPT ![local] = result.blackboard]
    /\ projected' = [projected EXCEPT ![conversation_id] =
                        DictUpdate(@, Written(before, result.blackboard))]
    /\ UNCHANGED memories

\* CursorAgent.execute_workflow from there to its return: lines 293-300
ExecuteWorkflowEnd ==
    \E m \in 1..MaxMessages :
        /\ procs[m].phase = "running"
        /\ procs[m].entry = "execute_workflow"
        /\ \E raising \in 0..Len(procs[m].plan.steps) :
            KeepLocal(procs[m].conversation, procs[m].blackboard,
                      heap[procs[m].blackboard],
                      ExecutePlan(procs[m].plan, heap[procs[m].blackboard], environ,
                                  {raising} \ {0}))
        /\ procs' = [procs EXCEPT ![m].phase = "returned"]
        /\ UNCHANGED exec_vars

\* No run of execute_plan is followed step by step
AgentInit ==
    /\ AgentCreated
    /\ plan = ExecutionPlan(<<>>)
    /\ blackboard = EmptyDict
    /\ environ \in Environs
    /\ completed_steps = <<>>
    /\ step_results = EmptyDict
    /\ pending_steps = <<>>
    /\ executable = <<>>
    /\ tasks = <<>>
    /\ pc = "start"
    /\ i = 1
    /\ j = 1
    /\ ret = NoReturn
    /\ calls = <<>>
    /\ wave = 0
    /\ wave_blackboard = blackboard

AgentNext ==
    \/ SetBlackboardValue
    \/ ProcessMessageBegin
    \/ ProcessMessageEnd
    \/ ExecuteWorkflowBegin
    \/ ExecuteWorkflowEnd

\* Calls of process_message and execute_workflow on one agent, in any
\* interleaving
AgentSpec == AgentInit /\ [][AgentNext]_vars

\* ------------------------------------------------------------------ claims

NumSteps == Len(plan.steps)

StatusOf(k) == plan.steps[k].status

\* The position in plan.steps of the step with this id, 0 when there is none
StepNamed(id) ==
    IF \E k \in 1..NumSteps : plan.steps[k].step_id = id
    THEN CHOOSE k \in 1..NumSteps : plan.steps[k].step_id = id
    ELSE 0

Returned == pc = "done"

\* C1: a step is in_progress, completed or failed only when every entry of its
\* depends_on is in completed_steps and names a step of the plan that
\* completed; a step whose handler was called is such a step.
C1_StartsAfterDependencies ==
    /\ \A k \in 1..NumSteps :
        StatusOf(k) \in {"in_progress", "completed", "failed"} =>
            \A n \in 1..Len(plan.steps[k].depends_on) :
                LET dep == plan.steps[k].depends_on[n]
                IN  /\ \E m \in 1..Len(completed_steps) : completed_steps[m] = dep
                    /\ StepNamed(dep) # 0
                    /\ StatusOf(StepNamed(dep)) = "completed"
    /\ \A c \in 1..Len(calls) : StatusOf(calls[c]) # "pending"

\* A step with two dependencies had its handler called.
C1_Witness ==
    \E c \in 1..Len(calls) : Len(plan.steps[calls[c]].depends_on) >= 2

\* C2: execute_plan returns True exactly when every step is completed and the
\* plan is completed; every other return is False with the plan failed; a
\* failed step means a failed plan and a False return.
C2_ReturnValue ==
    /\ Returned =>
        /\ ret \in {<<TRUE>>, <<FALSE>>}
        /\ (ret = <<TRUE>>) <=>
              /\ \A k \in 1..NumSteps : StatusOf(k) = "completed"
              /\ plan.status = "completed"
        /\ (ret = <<FALSE>>) => plan.status = "failed"
        /\ (\E k \in 1..NumSteps : StatusOf(k) = "failed") =>
              plan.status = "failed" /\ ret = <<FALSE>>
    /\ (\E k \in 1..NumSteps : StatusOf(k) = "failed") => plan.status = "failed"

\* execute_plan returned False with one step completed and another failed.
C2_Witness ==
    /\ Returned
    /\ ret = <<FALSE>>
    /\ \E k \in 1..NumSteps : StatusOf(k) = "completed"
    /\ \E k \in 1..NumSteps : StatusOf(k) = "failed"

\* step k lists step m in its depends_on
DependsOn(k, m) == InList(plan.steps[m].step_id, plan.steps[k].depends_on)

RECURSIVE ReachesWithin(_, _, _)
\* m is reached from k along at most hops depends_on entries
ReachesWithin(k, m, hops) ==
    \/ DependsOn(k, m)
    \/ /\ hops > 1
       /\ \E x \in 1..NumSteps : DependsOn(k, x) /\ ReachesWithin(x, m, hops - 1)

\* No step depends on itself, directly or through other steps
NoDependencyCycle == \A k \in 1..NumSteps : ~ReachesWithin(k, k, NumSteps)

\* C3 as claimed: when execute_plan returns on a plan with no dependency
\* cycle, every step is completed or failed.
C3_Original ==
    (Returned /\ NoDependencyCycle) =>
        \A k \in 1..NumSteps : StatusOf(k) \in {"completed", "failed"}

\* C3 amended: when execute_plan returns True every step is completed; when
\* it returns False some step is not completed, a step left pending never had
\* its handler called, and a step left in_progress is a step of the wave that
\* was aborted.
C3_StatusesAtReturn ==
    Returned =>
        /\ ret = <<TRUE>> => \A k \in 1..NumSteps : StatusOf(k) = "completed"
        /\ ret = <<FALSE>> => \E k \in 1..NumSteps : StatusOf(k) # "completed"
        /\ \A k \in 1..NumSteps :
            /\ StatusOf(k) = "pending" => \A c \in 1..Len(calls) : calls[c] # k
            /\ StatusOf(k) = "in_progress" =>
                  /\ ret = <<FALSE>>
                  /\ \E n \in 1..Len(executable) : executable[n] = k

\* execute_plan returned on a plan with no dependency cycle, leaving one step
\* failed, one in_progress and one pending.
C3_Witness ==
    /\ Returned
    /\ NoDependencyCycle
    /\ \E k \in 1..NumSteps : StatusOf(k) = "failed"
    /\ \E k \in 1..NumSteps : StatusOf(k) = "in_progress"
    /\ \E k \in 1..NumSteps : StatusOf(k) = "pending"

\* C4: on a plan with no dependency cycle execute_plan returns, given that
\* every called handler returns or raises; each pass of the ready-set loop
\* that does not return shortens pending_steps, and there are never more
\* waves than steps.
C4_Terminates ==
    /\ NoDependencyCycle => <>Returned
    /\ [](wave <= NumSteps)
    /\ [][(pc = "await" /\ pc' = "loop") => Len(pending_steps') < Len(pending_steps)]_vars

\* A plan of three steps with no dependency cycle ran three waves to the end.
C4_Witness ==
    /\ Returned
    /\ NoDependencyCycle
    /\ NumSteps = 3
    /\ wave = 3
    /\ ret = <<TRUE>>

\* The ready set is empty while steps remain in pending_steps
Stuck ==
    /\ pc = "loop"
    /\ Len(pending_steps) > 0
    /\ \A n \in 1..Len(pending_steps) :
        \E d \in 1..Len(plan.steps[pending_steps[n]].depends_on) :
            \A m \in 1..Len(completed_steps) :
                completed_steps[m] # plan.steps[pending_steps[n]].depends_on[d]

\* C5: with the ready set empty and steps remaining, the next thing
\* execute_plan does is return False with the plan failed, the blackboard and
\* every step as they were; the remaining steps are pending and were never
\* called, no step is failed, and nothing happens after the return.
C5_UnsatisfiableGraph ==
    /\ [][Stuck =>
            /\ pc' = "done"
            /\ ret' = <<FALSE>>
            /\ plan'.status = "failed"
            /\ plan'.steps = plan.steps
            /\ blackboard' = blackboard
            /\ calls' = calls
            /\ \A n \in 1..Len(pending_steps) :
                /\ StatusOf(pending_steps[n]) = "pending"
                /\ \A c \in 1..Len(calls) : calls[c] # pending_steps[n]
            /\ \A k \in 1..NumSteps : StatusOf(k) # "failed"]_vars
    /\ [][pc # "done"]_vars

\* execute_plan returned from an empty ready set after a wave that completed:
\* a step is left pending behind a completed one, the blackboard holding the
\* completed step's output.
C5_Witness ==
    /\ Returned
    /\ ret = <<FALSE>>
    /\ \A k \in 1..NumSteps : StatusOf(k) \in {"pending", "completed"}
    /\ \E k \in 1..NumSteps : StatusOf(k) = "completed"
    /\ \E k \in 1..NumSteps : StatusOf(k) = "pending"
    /\ HasKey(blackboard, StepKey(StepId(1)))

\* step k is a member of the current wave
InWave(k) == InList(k, executable)

\* some step of the plan is failed
SomeStepFailed == \E k \in 1..NumSteps : StatusOf(k) = "failed"

\* every step of the wave passed validation and its coroutine was made
Dispatched == Len(executable) > 0 /\ Len(tasks) = Len(executable)

\* C6 as claimed: when execute_plan returns after a step of a dispatched wave
\* failed, every step of that wave is completed or failed, and every step
\* of the wave whose tool has a handler had the handler called.
C6_WaveSettles ==
    (Returned /\ Dispatched /\ \E k \in 1..NumSteps : InWave(k) /\ StatusOf(k) = "failed") =>
        \A n \in 1..Len(tasks) :
            /\ StatusOf(tasks[n].step) \in {"completed", "failed"}
            /\ tasks[n].request.name \in HandlerTools => InList(tasks[n].step, calls)

\* C7: once a step is failed execute_plan has returned False and nothing
\* more happens; every step outside the wave of the failed step is pending or
\* completed, and the pending ones never had their handler called.
C7_NoLaterWave ==
    /\ [](SomeStepFailed =>
            /\ Returned
            /\ ret = <<FALSE>>
            /\ \E k \in 1..NumSteps : InWave(k) /\ StatusOf(k) = "failed"
            /\ \A k \in 1..NumSteps :
                ~InWave(k) =>
                    /\ StatusOf(k) \in {"pending", "completed"}
                    /\ StatusOf(k) = "pending" => ~InList(k, calls))
    /\ [][~SomeStepFailed]_vars

\* A step of the wave failed after another step completed, and a step whose
\* dependencies are all completed was left pending.
C7_Witness ==
    /\ Returned
    /\ SomeStepFailed
    /\ \E k \in 1..NumSteps :
        /\ ~InWave(k)
        /\ StatusOf(k) = "pending"
        /\ Len(plan.steps[k].depends_on) > 0
        /\ DependenciesMet(plan.steps[k], completed_steps)

\* C8 as claimed: every call of the wave is started before execute_plan
\* waits for one of them to finish, so while a call of the wave is in flight
\* no coroutine of the wave is still unstarted.
C8_ParallelDispatch ==
    (pc = "await" /\ \E n \in 1..Len(tasks) : tasks[n].state = "running") =>
        \A n \in 1..Len(tasks) : tasks[n].state # "created"

\* C9: the ready set is computed only when every task of the wave before has
\* finished and no step is in_progress; a step in_progress and a task are
\* always of the current wave; the tasks before tasks[j] have finished and the
\* tasks after it have not been started.
C9_Barrier ==
    /\ pc = "loop" =>
        /\ \A n \in 1..Len(tasks) : tasks[n].state = "finished"
        /\ \A k \in 1..NumSteps : StatusOf(k) # "in_progress"
    /\ \A k \in 1..NumSteps : StatusOf(k) = "in_progress" => InWave(k)
    /\ \A n \in 1..Len(tasks) :
        /\ InWave(tasks[n].step)
        /\ (pc = "await" /\ n < j) => tasks[n].state = "finished"
        /\ (pc = "await" /\ n > j) => tasks[n].state = "created"
        /\ tasks[n].state = "running" => pc = "await" /\ n = j

\* A call of the second wave is in flight.
C9_Witness ==
    /\ wave = 2
    /\ pc = "await"
    /\ Len(tasks) = 2
    /\ tasks[2].state = "running"

\* the request of executable[i] and what validate_tool_request says of it
RequestAt(n) ==
    PrepareToolRequest(plan.steps[executable[n]], blackboard, step_results, environ)

\* C10: when the request of a ready step is not valid, the next thing
\* execute_plan does is return False with that step failed, its result
\* carrying the validation error, and the plan failed; no step of the wave
\* has had its handler called and the blackboard is the one the wave began
\* with.
C10_ValidationFailure ==
    [][(pc = "prepare" /\ ~ValidateToolRequest(RequestAt(i)).valid) =>
          LET k == executable[i]
              verdict == ValidateToolRequest(RequestAt(i))
          IN  /\ pc' = "done"
              /\ ret' = <<FALSE>>
              /\ plan'.status = "failed"
              /\ plan'.steps[k].status = "failed"
              /\ plan'.steps[k].result.success = FALSE
              /\ plan'.steps[k].result.error = verdict.error
              /\ \A m \in 1..NumSteps : m # k => plan'.steps[m] = plan.steps[m]
              /\ \A n \in 1..Len(executable) : ~InList(executable[n], calls')
              /\ blackboard' = wave_blackboard]_vars

\* The second step of the second wave failed validation: execute_plan
\* returned with the first step of that wave in_progress and never called.
C10_Witness ==
    /\ Returned
    /\ wave = 2
    /\ i = 2
    /\ Len(tasks) = 1
    /\ tasks[1].state = "created"
    /\ StatusOf(executable[1]) = "in_progress"
    /\ StatusOf(executable[2]) = "failed"
    /\ plan.steps[executable[2]].result.success = FALSE
    /\ IsStr(plan.steps[executable[2]].result.error)
    /\ \A n \in 1..Len(executable) : ~InList(executable[n], calls)

RECURSIVE HoldsPlaceholder(_)
\* the value holds a text with a placeholder {...}, at any depth
HoldsPlaceholder(x) ==
    IF IsStr(x) THEN Len(FindAll(x.v)) > 0
    ELSE IF IsList(x) THEN \E n \in 1..Len(x.v) : HoldsPlaceholder(x.v[n])
    ELSE IF IsDict(x) THEN \E n \in 1..Len(x.v) : HoldsPlaceholder(x.v[n].val)
    ELSE FALSE

\* C11 as claimed: no request whose handler was called holds a placeholder in
\* any of its arguments.
C11_ConcreteArgs ==
    \A n \in 1..Len(tasks) :
        tasks[n].state \in {"running", "finished"} =>
            ~HoldsPlaceholder(tasks[n].request.args)

\* the text {step_id.key}
StepPlaceholder(step_id, key) == Braced(step_id \o <<".">> \o <<key>>)

\* the raw argument arg of step k is the string text
RawArgIs(k, arg, text) ==
    /\ HasKey(plan.steps[k].args, arg)
    /\ Lookup(plan.steps[k].args, arg) = Str(text)

\* str(e) of a handler's exception is the error of step k's result
HandlerFailed(k) ==
    /\ StatusOf(k) = "failed"
    /\ \E message \in HandlerErrors : plan.steps[k].result.error = Str(message)

\* C12: a string that is exactly {d.K}, d having a recorded output with key
\* K, resolves to the recorded value itself; a request made for a step whose
\* rows are {step1.rows} carries step1's recorded rows, a list; and a plan
\* step1 -> step2 with such a step2 ends with both steps and the plan
\* completed unless a handler raised.
C12_NativeValue ==
    /\ \A d \in 1..Len(step_results.v) :
        \A n \in 1..Len(step_results.v[d].val.v) :
            LET step_id == step_results.v[d].k
                key == step_results.v[d].val.v[n].k
            IN  Len(key) = 1 =>
                    ResolveString(StepPlaceholder(step_id, key[1]), blackboard,
                                  step_results, environ)
                        = Lookup(Lookup(step_results, step_id), key)
    /\ \A n \in 1..Len(tasks) :
        RawArgIs(tasks[n].step, <<"rows">>, StepPlaceholder(StepId(1), "rows")) =>
            /\ HasKey(step_results, StepId(1))
            /\ IsList(Lookup(tasks[n].request.args, <<"rows">>))
            /\ Lookup(tasks[n].request.args, <<"rows">>)
                  = Lookup(Lookup(step_results, StepId(1)), <<"rows">>)
    /\ ( /\ Returned
         /\ NumSteps = 2
         /\ plan.steps[1].tool = "extract_webpage"
         /\ plan.steps[1].depends_on = <<>>
         /\ plan.steps[2].depends_on = <<StepId(1)>>
         /\ RawArgIs(2, <<"rows">>, StepPlaceholder(StepId(1), "rows"))
         /\ ~HandlerFailed(1) /\ ~HandlerFailed(2) ) =>
            /\ ret = <<TRUE>>
            /\ StatusOf(1) = "completed" /\ StatusOf(2) = "completed"
            /\ plan.status = "completed"
            /\ calls = <<1, 2>>

\* The plan step1 -> step2 ran to the end, step2 called with step1's rows.
C12_Witness ==
    /\ Returned
    /\ NumSteps = 2
    /\ plan.steps[1].tool = "extract_webpage"
    /\ RawArgIs(2, <<"rows">>, StepPlaceholder(StepId(1), "rows"))
    /\ ret = <<TRUE>>
    /\ Len(tasks) = 1
    /\ tasks[1].step = 2
    /\ IsList(Lookup(tasks[1].request.args, <<"rows">>))
    /\ Lookup(tasks[1].request.args, <<"rows">>)
          = Lookup(plan.steps[1].result.output, <<"rows">>)

RECURSIVE PathFails(_, _)
\* some segment of path does not resolve from value: a non-mapping is
\* reached with segments left, or a key is missing
PathFails(value, path) ==
    IF Len(path) = 0 THEN FALSE
    ELSE IF ~IsDict(value) THEN TRUE
    ELSE IF ~HasKey(value, Head(path)) THEN TRUE
    ELSE PathFails(Lookup(value, Head(path)), Tail(path))

\* text is exactly one placeholder {source.path} whose source is the
\* blackboard or a step with a recorded output, and whose path fails
IsFailingReference(text) ==
    /\ Len(FindAll(text)) = 1
    /\ text = Braced(FindAll(text)[1])
    /\ LET parts == SplitDots(FindAll(text)[1])
       IN  /\ Len(parts) >= 2
           /\ \/ parts[1] = <<"blackboard">> /\ PathFails(blackboard, Tail(parts))
              \/ /\ parts[1] # <<"blackboard">>
                 /\ HasKey(step_results, parts[1])
                 /\ PathFails(Lookup(step_results, parts[1]), Tail(parts))

\* C13 as claimed: when prepare_tool_request is about to run on a step, each
\* of its arguments that is a reference with a failing path segment resolves
\* to the text of the reference itself.
C13_SoftFailPath ==
    pc = "prepare" =>
        LET args == plan.steps[executable[i]].args
        IN  \A n \in 1..Len(args.v) :
                (IsStr(args.v[n].val) /\ IsFailingReference(args.v[n].val.v)) =>
                    Lookup(RequestAt(i).args, args.v[n].k) = args.v[n].val

\* Output keys that plans refer to
ReferredKeys == {"rows", "markdown", "spreadsheet_id", "title", "link"}

\* text is exactly one placeholder {step_id.key...} whose step_id is the id of
\* a step with no recorded output
IsEarlyReference(text) ==
    /\ Len(FindAll(text)) = 1
    /\ text = Braced(FindAll(text)[1])
    /\ LET parts == SplitDots(FindAll(text)[1])
       IN  /\ Len(parts) >= 2
           /\ \E s \in 1..Len(StepAtoms) : parts[1] = StepId(s)
           /\ ~HasKey(step_results, parts[1])

\* the error validate_tool_request gives for an unresolved argument
UnresolvedError(arg, text) ==
    Str(<<"Unresolved placeholder in argument: ">> \o arg \o <<" = ">> \o text)

\* C14: whatever the blackboard and the recorded outputs are, a placeholder
\* {s.K} on a step id s with no recorded output (pending, in flight, failed or
\* not of the plan) resolves to its own text; and so does each such argument
\* of a step prepare_tool_request is about to run on.
C14_SoftFailStep ==
    /\ \A s \in 1..Len(StepAtoms), key \in ReferredKeys :
        ~HasKey(step_results, StepId(s)) =>
            ResolvePlaceholder(StepId(s) \o <<".", key>>, blackboard, step_results,
                               environ)
                = Str(StepPlaceholder(StepId(s), key))
    /\ pc = "prepare" =>
        LET args == plan.steps[executable[i]].args
        IN  \A n \in 1..Len(args.v) :
                (IsStr(args.v[n].val) /\ IsEarlyReference(args.v[n].val.v)) =>
                    Lookup(RequestAt(i).args, args.v[n].k) = args.v[n].val

\* A step whose rows refer to step1 was prepared while step1 had no recorded
\* output: the validator reported the placeholder text itself.
C14_Witness ==
    /\ Returned
    /\ ~HasKey(step_results, StepId(1))
    /\ \E k \in 1..NumSteps :
        /\ RawArgIs(k, <<"rows">>, StepPlaceholder(StepId(1), "rows"))
        /\ StatusOf(k) = "failed"
        /\ plan.steps[k].result.error
              = UnresolvedError(<<"rows">>, StepPlaceholder(StepId(1), "rows"))

\* the request has no argument arg, or a null one, or a string with both an
\* opening and a closing brace
Offending(request, arg) ==
    \/ \A n \in 1..Len(request.args.v) : request.args.v[n].k # arg
    \/ \E n \in 1..Len(request.args.v) :
        /\ request.args.v[n].k = arg
        /\ \/ request.args.v[n].val = None
           \/ /\ request.args.v[n].val.t = "str"
              /\ \E p, q \in 1..Len(request.args.v[n].val.v) :
                    request.args.v[n].val.v[p] = "{" /\ request.args.v[n].val.v[q] = "}"

\* C15: for the request of the step being prepared, validate_tool_request
\* says invalid exactly when the tool is in the table of required arguments
\* and one of them is absent, null or a string with both braces; a tool
\* outside the table is valid; the reason of an invalid request names the
\* first offending argument of the table, and a valid request has no reason.
C15_Validation ==
    pc = "prepare" =>
        LET request == RequestAt(i)
            verdict == ValidateToolRequest(request)
            required == RequiredArgs(request.name)
            offenders == {n \in 1..Len(required) : Offending(request, required[n])}
        IN  /\ ~verdict.valid <=> (request.name \in TableTools /\ offenders # {})
            /\ request.name \notin TableTools => verdict.valid
            /\ verdict.valid => verdict.error = None
            /\ ~verdict.valid =>
                LET first == CHOOSE n \in offenders : \A m \in offenders : n <= m
                IN  /\ IsStr(verdict.error)
                    /\ verdict.error.v[1] \in {"Missing required argument: ",
                                               "Unresolved placeholder in argument: "}
                    /\ <<verdict.error.v[2]>> = required[first]

\* A mail step whose to and subject both offend was refused for to, the
\* first of the two in the table.
C15_Witness ==
    /\ Returned
    /\ \E k \in 1..NumSteps :
        /\ plan.steps[k].tool = "gmail_send"
        /\ RawArgIs(k, <<"subject">>, StepPlaceholder(StepId(1), "title"))
        /\ StatusOf(k) = "failed"
        /\ plan.steps[k].result.error.v[2] = "to"

\* Names of environment variables the program reads
EnvNames == {"SELF_EMAIL", "F1_STANDINGS_URL", "TELEGRAM_CHAT_ID"}

\* the text {env.name}
EnvPlaceholder(name) == <<"{", "env", ".", name, "}">>

\* C16: {env.NAME} with NAME unset resolves to its own text; a gmail_send
\* step whose to is {env.SELF_EMAIL}, SELF_EMAIL being unset, never has a
\* request made or its handler called, and once it is failed its result
\* says that to is unresolved, the plan is failed and execute_plan returned
\* False.
C16_UnsetEnvironment ==
    /\ \A name \in EnvNames :
        ~HasKey(environ, <<name>>) =>
            ResolveString(EnvPlaceholder(name), blackboard, step_results, environ)
                = Str(EnvPlaceholder(name))
    /\ \A k \in 1..NumSteps :
        ( /\ plan.steps[k].tool = "gmail_send"
          /\ RawArgIs(k, <<"to">>, EnvPlaceholder("SELF_EMAIL"))
          /\ ~HasKey(environ, <<"SELF_EMAIL">>) ) =>
            /\ StatusOf(k) \in {"pending", "failed"}
            /\ ~InList(k, calls)
            /\ \A n \in 1..Len(tasks) : tasks[n].step # k
            /\ StatusOf(k) = "failed" =>
                /\ plan.steps[k].result.success = FALSE
                /\ plan.steps[k].result.error
                      = UnresolvedError(<<"to">>, EnvPlaceholder("SELF_EMAIL"))
                /\ plan.status = "failed"
                /\ Returned /\ ret = <<FALSE>>

\* After a first step completed, the mail step to {env.SELF_EMAIL} failed
\* validation; no mail was sent.
C16_Witness ==
    /\ Returned
    /\ ~HasKey(environ, <<"SELF_EMAIL">>)
    /\ NumSteps = 2
    /\ StatusOf(1) = "completed"
    /\ plan.steps[2].tool = "gmail_send"
    /\ RawArgIs(2, <<"to">>, EnvPlaceholder("SELF_EMAIL"))
    /\ StatusOf(2) = "failed"
    /\ calls = <<1>>
    /\ plan.status = "failed"

\* the error execute_tool gives for a tool without a handler
UnknownToolError(tool) == Str(<<"Unknown tool: ", tool>>)

\* C17: a step whose tool is not in the catalog is valid when it is
\* prepared; its handler is never called; once it is failed a request was
\* made for it, its result carries the error "Unknown tool: <tool>", the plan
\* is failed and execute_plan returned False.
C17_UnknownTool ==
    /\ (pc = "prepare" /\ plan.steps[executable[i]].tool \notin ToolCatalog) =>
            ValidateToolRequest(RequestAt(i)).valid
    /\ \A k \in 1..NumSteps :
        plan.steps[k].tool \notin ToolCatalog =>
            /\ ~InList(k, calls)
            /\ StatusOf(k) # "completed"
            /\ StatusOf(k) = "failed" =>
                /\ \E n \in 1..Len(tasks) :
                    tasks[n].step = k /\ tasks[n].state = "finished"
                /\ plan.steps[k].result.success = FALSE
                /\ plan.steps[k].result.error = UnknownToolError(plan.steps[k].tool)
                /\ plan.status = "failed"
                /\ Returned /\ ret = <<FALSE>>

\* After a first step completed, a step naming the tool python failed at
\* dispatch.
C17_Witness ==
    /\ Returned
    /\ \E k \in 1..NumSteps :
        /\ plan.steps[k].tool = "python"
        /\ StatusOf(k) = "failed"
        /\ plan.steps[k].result.error = UnknownToolError("python")
        /\ Len(calls) > 0
        /\ ~InList(k, calls)

\* step k completes in this step
Completes(k) == StatusOf(k) # "completed" /\ plan'.steps[k].status = "completed"

\* C18: when a step completes, the blackboard then holds its output under
\* step_<step_id> and, for each entry of the tool's key mappings whose output
\* key is present, that value under the blackboard key; and at all times the
\* blackboard holds, for every completed step, under step_<step_id> the
\* output recorded for it in step_results, which is the output of its result.
C18_BlackboardKeys ==
    /\ [][\A k \in 1..NumSteps :
            Completes(k) =>
                LET step == plan.steps[k]
                    output == plan'.steps[k].result.output
                    mappings == KeyMappings(step.tool)
                IN  /\ HasKey(blackboard', StepKey(step.step_id))
                    /\ Lookup(blackboard', StepKey(step.step_id)) = output
                    /\ \A n \in 1..Len(mappings) :
                        HasKey(output, mappings[n].k) =>
                            /\ HasKey(blackboard', mappings[n].val)
                            /\ Lookup(blackboard', mappings[n].val)
                                  = Lookup(output, mappings[n].k)]_vars
    /\ [](\A k \in 1..NumSteps :
            StatusOf(k) = "completed" =>
                /\ HasKey(step_results, plan.steps[k].step_id)
                /\ HasKey(blackboard, StepKey(plan.steps[k].step_id))
                /\ Lookup(blackboard, StepKey(plan.steps[k].step_id))
                      = Lookup(step_results, plan.steps[k].step_id)
                /\ Lookup(step_results, plan.steps[k].step_id)
                      = plan.steps[k].result.output)

\* Both steps of a plan completed: the blackboard holds both outputs, the
\* rows and the text of the page, and the address of the new sheet in place
\* of the one it began with.
C18_Witness ==
    /\ Returned
    /\ ret = <<TRUE>>
    /\ NumSteps = 2
    /\ plan.steps[2].tool = "google_sheets_upsert"
    /\ HasKey(blackboard, StepKey(StepId(1)))
    /\ HasKey(blackboard, StepKey(StepId(2)))
    /\ HasKey(blackboard, <<"data_rows">>)
    /\ HasKey(blackboard, <<"extracted_content">>)
    /\ Lookup(blackboard, <<"sheet_url">>)
          = Lookup(plan.steps[2].result.output, <<"sheet_url">>)
    /\ Lookup(blackboard, <<"sheet_url">>) # Lookup(wave_blackboard, <<"sheet_url">>)

C20_PlanStatus ==
    [][/\ plan.status = "pending" => plan'.status \in {"pending", "in_progress"}
       /\ plan.status = "in_progress" =>
            plan'.status \in {"in_progress", "completed", "failed"}
       /\ plan.status \in {"completed", "failed"} =>
            /\ plan'.status = plan.status
            /\ plan'.steps = plan.steps]_vars

\* step k has a recorded result (step.result is not None)
HasResult(k) == plan.steps[k].result # None

\* C21: at all times a step has a result exactly when its status is
\* completed or failed; the result of a completed step has success true,
\* the result of a failed step has success false and a string as error.
C21_ResultIffSettled ==
    \A k \in 1..NumSteps :
        /\ HasResult(k) <=> StatusOf(k) \in {"completed", "failed"}
        /\ StatusOf(k) = "completed" => plan.steps[k].result.success = TRUE
        /\ StatusOf(k) = "failed" =>
              /\ plan.steps[k].result.success = FALSE
              /\ IsStr(plan.steps[k].result.error)

\* A plan returned from with one step completed and holding its output, one
\* failed with the handler's error, and one never started without a result.
C21_Witness ==
    /\ Returned
    /\ NumSteps = 3
    /\ \E k \in 1..NumSteps :
        /\ StatusOf(k) = "completed"
        /\ plan.steps[k].result.success = TRUE
        /\ Len(plan.steps[k].result.output.v) > 0
    /\ \E k \in 1..NumSteps : HandlerFailed(k) /\ plan.steps[k].result.success = FALSE
    /\ \E k \in 1..NumSteps : StatusOf(k) = "pending" /\ ~HasResult(k)

\* A call of process_message or execute_workflow that has been made
Called(m) == procs[m].phase # "waiting"

\* every depends_on entry of every step of p is the step_id of a step of p
DependsOnClosed(p) ==
    \A k \in 1..Len(p.steps) :
        \A d \in 1..Len(p.steps[k].depends_on) :
            \E m \in 1..Len(p.steps) : p.steps[m].step_id = p.steps[k].depends_on[d]

\* C22 as claimed: every plan returned by create_plan, built from the answer
\* of the planning model after the steps naming tools outside the catalog
\* were dropped or by the rule-based fallback, has every depends_on entry of
\* every step equal to the step_id of a step of the same plan.
C22_DependsOnClosed ==
    \A m \in 1..MaxMessages : Called(m) => DependsOnClosed(procs[m].plan)

\* The blackboard of the memory of conversation c, empty while there is none
MemoryBlackboard(c) == IF memories[c] = 0 THEN EmptyDict ELSE heap[memories[c]]

\* No dict is the blackboard of two conversations, and the dict a call works
\* on is neither the blackboard of another conversation nor the dict of a call
\* of another conversation
NoSharedInstance ==
    /\ \A c \in Conversations, d \in Conversations :
        (c # d /\ memories[c] # 0) => memories[c] # memories[d]
    /\ \A m \in 1..MaxMessages : Called(m) =>
        /\ \A c \in Conversations \ {procs[m].conversation} :
            memories[c] # procs[m].blackboard
        /\ \A n \in 1..MaxMessages :
            (Called(n) /\ procs[n].conversation # procs[m].conversation) =>
                procs[n].blackboard # procs[m].blackboard

\* Every key of bb was seeded for conversation c or written by a plan
\* execution of c
OwnEntries(bb, c) ==
    \A n \in 1..Len(bb.v) : HasKey(projected[c], bb.v[n].k)

\* What the blackboard of a conversation and the dict of each of its calls
\* hold comes from that conversation
OnlyOwnEntries ==
    /\ \A c \in Conversations : OwnEntries(MemoryBlackboard(c), c)
    /\ \A m \in 1..MaxMessages : Called(m) =>
        OwnEntries(heap[procs[m].blackboard], procs[m].conversation)

\* The blackboard of the memory of conversation c after the step
MemoryBlackboardAfter(c) == IF memories'[c] = 0 THEN EmptyDict ELSE heap'[memories'[c]]

\* A step of the call m (it begins or it returns)
Acts(m) == procs'[m] # procs[m]

\* A step of a call leaves the memory of every other conversation as it is
OthersUntouched ==
    \A m \in 1..MaxMessages : Acts(m) =>
        \A c \in Conversations \ {procs'[m].conversation} :
            /\ memories'[c] = memories[c]
            /\ MemoryBlackboardAfter(c) = MemoryBlackboard(c)

\* A call of process_message begins with a copy of the blackboard of its own
\* conversation
ReadsOwn ==
    \A m \in 1..MaxMessages :
        (Acts(m) /\ ~Called(m) /\ procs'[m].entry = "process_message") =>
            heap'[procs'[m].blackboard] = MemoryBlackboardAfter(procs'[m].conversation)

\* C23: blackboards are isolated per conversation.  No dict is the blackboard
\* of two conversation ids; a call for conversation A starts from a copy of
\* A's blackboard, never changes the blackboard of a conversation B # A, and
\* what A's blackboard holds was seeded for A or written by a plan execution
\* of A, whatever the interleaving of the calls.
C23_Isolated ==
    /\ [](NoSharedInstance /\ OnlyOwnEntries)
    /\ [][OthersUntouched /\ ReadsOwn]_vars

\* Two calls of process_message for different conversations have returned,
\* one conversation was seeded and the other was not, and their blackboards
\* differ
C23_Witness ==
    /\ \A m \in 1..MaxMessages :
        procs[m].phase = "returned" /\ procs[m].entry = "process_message"
    /\ procs[1].conversation # procs[2].conversation
    /\ \E c \in Conversations, d \in Conversations :
        /\ HasKey(projected[c], <<"sheet_url">>)
        /\ ~HasKey(MemoryBlackboard(d), <<"sheet_url">>)
        /\ Len(MemoryBlackboard(d).v) > 0
    /\ MemoryBlackboard("A") # MemoryBlackboard("B")

\* bb holds every entry seeded for conversation c or written by a plan
\* execution of c that has ended, with its latest value
HoldsProjected(bb, c) ==
    \A n \in 1..Len(projected[c].v) :
        /\ HasKey(bb, projected[c].v[n].k)
        /\ Lookup(bb, projected[c].v[n].k) = projected[c].v[n].val

\* C24 as claimed: every key written by the projector during a plan execution
\* of a conversation, successful or failed, and every key seeded by the
\* caller is present with its value (the latest one when a later projection
\* overwrote it) in the blackboard handed to every later plan execution of
\* that conversation, through process_message and through execute_workflow.
C24_Persist ==
    [][\A m \in 1..MaxMessages :
          (Acts(m) /\ ~Called(m)) =>
              HoldsProjected(heap'[procs'[m].blackboard], procs'[m].conversation)]_vars

\* The blackboard keys _update_blackboard can write for a step
Targets(step) ==
    {KeyMappings(step.tool)[n].val : n \in 1..Len(KeyMappings(step.tool))}
    \cup {StepKey(step.step_id)}

\* step k fails in this step
Fails(k) == StatusOf(k) # "failed" /\ plan'.steps[k].status = "failed"

\* C25: the blackboard changes only in a step in which a plan step completes
\* with a successful result; a step that fails, in validation or in its tool
\* call, leaves the blackboard as it is; no key is ever removed; and a key
\* that the completing step's projection does not target keeps its value, so
\* a seeded key no projection targets keeps the seeded value.
C25_WrittenOnCompletion ==
    [][/\ blackboard' # blackboard =>
            \E k \in 1..NumSteps :
                Completes(k) /\ plan'.steps[k].result.success = TRUE
       /\ \A k \in 1..NumSteps : Fails(k) => blackboard' = blackboard
       /\ \A n \in 1..Len(blackboard.v) :
            /\ HasKey(blackboard', blackboard.v[n].k)
            /\ (\A k \in 1..NumSteps :
                    Completes(k) => blackboard.v[n].k \notin Targets(plan.steps[k]))
                => Lookup(blackboard', blackboard.v[n].k) = blackboard.v[n].val]_vars

\* execute_plan returned failure after one step completed and wrote the
\* blackboard and another failed; the seeded sheet_url is as seeded
C25_Witness ==
    /\ Returned
    /\ ret = <<FALSE>>
    /\ \E k \in 1..NumSteps :
        /\ StatusOf(k) = "completed"
        /\ HasKey(blackboard, StepKey(plan.steps[k].step_id))
        /\ HasKey(blackboard, <<"extracted_content">>)
    /\ \E k \in 1..NumSteps : StatusOf(k) = "failed"
    /\ \E seed \in Blackboards :
        Lookup(blackboard, <<"sheet_url">>) = Lookup(seed, <<"sheet_url">>)

\* Outputs that tell the fields a generic token can be rewritten to apart
FieldOutputs ==
    LET x == Str(<<"x">>)
    IN  {Dict(<<Item(<<"data_rows">>, x), Item(<<"rows">>, x)>>),
         Dict(<<Item(<<"output">>, x), Item(<<"data_rows">>, x)>>),
         Dict(<<Item(<<"link">>, x), Item(<<"output">>, x)>>),
         Dict(<<Item(<<"link">>, x), Item(<<"sheet_url">>, x)>>),
         EmptyDict}

\* Step results to preprocess against: step1 recorded, or step1 and step2
SampleResults ==
    {Put(EmptyDict, StepId(1), o) : o \in FieldOutputs}
    \cup {Put(Put(EmptyDict, StepId(1), CHOOSE r \in FieldOutputs : HasKey(r, <<"rows">>)),
              StepId(2), o) : o \in FieldOutputs}

\* The depends_on lists to preprocess with: up to two of step1..step3
DependsLists ==
    {<<>>} \cup {<<StepId(n)>> : n \in 1..3}
    \cup {<<StepId(n[1]), StepId(n[2])>> : n \in (1..3) \X (1..3)}

\* What a string that is one generic token ph becomes, in the words of the
\* rule: the last entry of depends_on with a recorded result, the field by
\* priority rows, data_rows, output, first key; untouched otherwise
RewrittenGeneric(ph, depends_on, results) ==
    LET recorded == {n \in 1..Len(depends_on) : HasKey(results, depends_on[n])}
    IN  IF recorded = {} THEN Braced(ph)
        ELSE LET last == CHOOSE n \in recorded : \A m \in recorded : m <= n
                 out == Lookup(results, depends_on[last])
                 field == IF HasKey(out, <<"rows">>) THEN <<"rows">>
                          ELSE IF HasKey(out, <<"data_rows">>) THEN <<"data_rows">>
                          ELSE IF HasKey(out, <<"output">>) THEN <<"output">>
                          ELSE out.v[1].k
             IN  IF Len(out.v) = 0 THEN Braced(ph)
                 ELSE <<"{">> \o depends_on[last] \o <<".">> \o field \o <<"}">>

\* The step being prepared holds a generic token in its html argument
PreparesGeneric ==
    /\ pc = "prepare"
    /\ HasKey(plan.steps[executable[i]].args, <<"html">>)
    /\ \E ph \in GenericTokens :
        InList(ph, FindAll(Lookup(plan.steps[executable[i]].args, <<"html">>).v))

\* C26 (for the sample results in the run on the empty plan, for the recorded
\* step results whenever a request is prepared in the other runs): a generic token is rewritten to {<step_id>.<field>} for the last
\* entry of depends_on with a recorded result, the field being rows, else
\* data_rows, else output, else the first key of that output, and is left
\* untouched when no entry has a recorded result or that output is empty;
\* and when execute_plan prepares a step with a non-empty depends_on, every
\* entry has a recorded result, so the entry chosen is the last one and the
\* request carries the chosen field of that step's output.
C26_GenericToken ==
    /\ \A ph \in GenericTokens, depends_on \in DependsLists,
          results \in (IF NumSteps = 0 THEN SampleResults
                       ELSE IF pc = "prepare" THEN {step_results} ELSE {}) :
            PreprocessString(Braced(ph), depends_on, results)
                = RewrittenGeneric(ph, depends_on, results)
    /\ pc = "prepare" =>
        LET step == plan.steps[executable[i]]
            last == step.depends_on[Len(step.depends_on)]
        IN  Len(step.depends_on) > 0 =>
                /\ MostRecentDependency(step.depends_on, step_results) = last
                /\ PreparesGeneric =>
                    Lookup(RequestAt(i).args, <<"html">>)
                        = Str(<<"F1 standings sheet: ">> \o
                              PyStr(Lookup(Lookup(step_results, last),
                                           ChosenField(Lookup(step_results, last)))))

\* A step whose html holds a generic token is being prepared after the step
\* it depends on recorded an output with rows
C26_Witness ==
    /\ PreparesGeneric
    /\ Len(plan.steps[executable[i]].depends_on) > 0
    /\ HasKey(Lookup(step_results, plan.steps[executable[i]].depends_on[1]), <<"rows">>)

RECURSIVE ResolveTree(_, _, _, _)
\* The argument tree x with every string leaf resolved, at any depth, and
\* every other leaf as it is
ResolveTree(x, bb, results, env) ==
    IF IsStr(x) THEN ResolveString(x.v, bb, results, env)
    ELSE IF IsList(x)
    THEN List([n \in 1..Len(x.v) |-> ResolveTree(x.v[n], bb, results, env)])
    ELSE IF IsDict(x)
    THEN Dict([n \in 1..Len(x.v) |->
                  Item(x.v[n].k, ResolveTree(x.v[n].val, bb, results, env))])
    ELSE x

\* C27 as claimed: the arguments of a request are the step's (preprocessed)
\* argument tree with the placeholders of every string leaf resolved at any
\* nesting depth, strings inside a mapping that is an element of a sequence
\* and strings inside a sequence nested in a sequence included, and every
\* non-string leaf unchanged.
C27_ResolvesWholeTree ==
    pc = "prepare" =>
        LET step == plan.steps[executable[i]]
        IN  RequestAt(i).args
                = ResolveTree(PreprocessPlaceholders(step.args, step.depends_on,
                                                     step_results),
                              blackboard, step_results, environ)

\* Argument trees without a placeholder: flat, empty, with a lone brace, and
\* nested with a list in a list, a mapping in a list and null leaves
PlainTrees ==
    {KindArgs("extract"), KindArgs("caption"), EmptyDict,
     Dict(<<Item(<<"rows">>,
                 List(<<Str(<<"a">>), List(<<Str(<<"a">>), None>>),
                        Dict(<<Item(<<"url">>, Str(<<"u">>))>>), None>>)),
            Item(<<"options">>,
                 Dict(<<Item(<<"note">>, Dict(<<Item(<<"url">>, Str(<<"u">>))>>)),
                        Item(<<"limit">>, None)>>))>>)}

\* The step being prepared has arguments, none of them holding a placeholder
PreparesPlain ==
    /\ pc = "prepare"
    /\ Len(plan.steps[executable[i]].args.v) > 0
    /\ ~HoldsPlaceholder(plan.steps[executable[i]].args)

\* C28 (for the sample trees in the run on the empty plan, for the steps and
\* requests of the other runs): preparing a request from an argument tree
\* without placeholders gives a tree equal to it, whatever the blackboard and
\* the step results hold; resolving again the arguments of a request that
\* holds no placeholder gives them back; and preparing a request leaves the
\* step's arguments, the blackboard and the step results as they are.
C28_Idempotent ==
    /\ [](/\ NumSteps = 0 =>
                \A tree \in PlainTrees, results \in SampleResults,
                   depends_on \in {<<>>, <<StepId(1)>>},
                   bb \in Blackboards \cup {EmptyDict} :
                    ResolveArguments(PreprocessPlaceholders(tree, depends_on, results),
                                     bb, results, environ) = tree
          /\ pc = "prepare" =>
                /\ ~HoldsPlaceholder(plan.steps[executable[i]].args) =>
                        RequestAt(i).args = plan.steps[executable[i]].args
                /\ ~HoldsPlaceholder(RequestAt(i).args) =>
                        ResolveArguments(RequestAt(i).args, blackboard, step_results,
                                         environ) = RequestAt(i).args)
    /\ [][pc = "prepare" =>
            /\ \A k \in 1..NumSteps : plan'.steps[k].args = plan.steps[k].args
            /\ blackboard' = blackboard
            /\ step_results' = step_results]_vars

\* A step whose arguments hold a brace but no placeholder is being prepared
\* after another step recorded its output
C28_Witness ==
    /\ PreparesPlain
    /\ Len(step_results.v) > 0
    /\ HasKey(plan.steps[executable[i]].args, <<"image_url_or_path">>)

\* The steps whose status is failed
FailedSteps == {k \in 1..NumSteps : StatusOf(k) = "failed"}

\* C29: execute_plan never retries.  No step has its handler called twice;
\* once a step is failed no handler is called any more, for it or for any
\* other step; and at most one step of the plan is failed, at the return and
\* at any time before.
C29_NoRetry ==
    /\ [](/\ \A a \in 1..Len(calls), b \in 1..Len(calls) :
                a # b => calls[a] # calls[b]
          /\ Cardinality(FailedSteps) <= 1)
    /\ [][FailedSteps # {} => calls' = calls]_vars

\* execute_plan returned failure: the handler of the one failed step was
\* called, once, after the handler of a step that completed
C29_Witness ==
    /\ Returned
    /\ ret = <<FALSE>>
    /\ Len(calls) >= 2
    /\ \E k \in FailedSteps : InList(k, calls) /\ HandlerFailed(k)
    /\ \E k \in 1..NumSteps : StatusOf(k) = "completed" /\ InList(k, calls)

\* step_results as it was when the wave began: without the outputs recorded
\* for steps of the wave
EarlierResults ==
    Dict(SelectSeq(step_results.v, LAMBDA item :
            \A n \in 1..Len(executable) : plan.steps[executable[n]].step_id # item.k))

\* C30: the requests of a wave are all resolved and validated before any
\* handler of the wave is called.  While the wave is prepared no handler of
\* it has been called, the blackboard is the one the wave began with and no
\* step of the wave has a recorded output; a handler is called only when
\* every step of the wave has a request that passed validation; and the
\* request of each task is the one resolved against the blackboard and the
\* step results the wave began with, so a reference sees what the caller
\* seeded or what steps of earlier waves produced, never what a step of the
\* same wave produced.
C30_ResolvedBeforeCalls ==
    /\ [](/\ pc = "prepare" =>
                /\ blackboard = wave_blackboard
                /\ \A n \in 1..Len(executable) :
                    /\ ~InList(executable[n], calls)
                    /\ ~HasKey(step_results, plan.steps[executable[n]].step_id)
          /\ \A k \in KeySet(step_results) :
                StepNamed(k) # 0 /\ StatusOf(StepNamed(k)) = "completed"
          /\ \A n \in 1..Len(tasks) :
                tasks[n].request
                    = PrepareToolRequest(plan.steps[tasks[n].step], wave_blackboard,
                                         EarlierResults, environ))
    /\ [][calls' # calls =>
            /\ Dispatched
            /\ \A n \in 1..Len(tasks) : ValidateToolRequest(tasks[n].request).valid]_vars

\* The second task of a wave is awaited with the text resolved from the
\* seeded sheet_url, after the first task of the wave wrote another sheet_url
\* to the blackboard
C30_Witness ==
    /\ pc = "await"
    /\ j = 2
    /\ tasks[1].state = "finished"
    /\ HasKey(tasks[2].request.args, <<"text">>)
    /\ Lookup(tasks[2].request.args, <<"text">>) = Lookup(wave_blackboard, <<"sheet_url">>)
    /\ Lookup(blackboard, <<"sheet_url">>) # Lookup(wave_blackboard, <<"sheet_url">>)

====
